---- MODULE Spec2Model ----
(***************************************************************************)
(* Model of scripts/sync_card_variants_v2.py: the variant classification   *)
(* of VariantCard, the candidate-key lookup try_multiple_card_ids and the  *)
(* per-set sync of EnhancedVariantSync against the pokemon_cards table.    *)
(*                                                                         *)
(* Python strings are sequences of one-character strings, so that          *)
(* lower(), lstrip('0'), zfill(), "in" and f-string concatenation are      *)
(* computed as the code computes them.  A missing card id (None) is the    *)
(* empty sequence, a missing product id (None, or 0: the code tests        *)
(* "not product_id") is 0.  The image url of a product is copied next to   *)
(* its name and never read by any decision; it is left out.                *)
(***************************************************************************)
EXTENDS Integers, Sequences, FiniteSets, TLC

VARIABLES
    cards,                  \* table pokemon_cards: card id -> row
    processed_product_ids,  \* EnhancedVariantSync.processed_product_ids
    stats,                  \* EnhancedVariantSync.stats (with unmapped_cards)
    dry_run,                \* EnhancedVariantSync.dry_run
    input_data,             \* the input actions of the set (unmapped_cards_input.json)
    products,               \* the marketplace product list of the set
    grouped_products,       \* sync_set_variants: the card-number groups, in order
    pc,                     \* position inside sync_set_variants
    idx,                    \* index of the next input action / group
    run,                    \* number of the current run of sync_set_variants
    variant_card,           \* a VariantCard object and what its methods returned
    lookup,                 \* one call of try_multiple_card_ids
    grading,                \* one call of get_grading_fee / calculate_grading_potential
    mapping,                \* one call of PokemonBackfiller.sync_tcgplayer_data
    store_fails             \* the writes to the pokemon_cards table raise

vars == <<cards, processed_product_ids, stats, dry_run, input_data, products,
          grouped_products, pc, idx, run, variant_card, lookup, grading, mapping,
          store_fails>>

syncVars == <<processed_product_ids, stats, dry_run, input_data, products,
              grouped_products, pc, idx, run, store_fails>>

(***************************************************************************)
(* Bounds of the model.                                                    *)
(***************************************************************************)
MaxNumLen == 4      \* longest card number given to try_multiple_card_ids
MaxFragments == 2   \* a product name is made of at most this many fragments
MaxGroup == 3       \* most products added to one VariantCard
MaxProducts == 2    \* products in the marketplace list of the set
MaxActions == 1     \* input actions of the set
MaxRuns == 2        \* runs of sync_set_variants over the set
MaxListed == 3      \* products given to group_products_by_card_number

(***************************************************************************)
(* Python string operations.                                               *)
(***************************************************************************)
Upper == <<"A","B","C","D","E","F","G","H","I","J","K","L","M",
           "N","O","P","Q","R","S","T","U","V","W","X","Y","Z">>
Low   == <<"a","b","c","d","e","f","g","h","i","j","k","l","m",
           "n","o","p","q","r","s","t","u","v","w","x","y","z">>
Digits == {"0","1","2","3","4","5","6","7","8","9"}
Letters == {Upper[i] : i \in DOMAIN Upper} \cup {Low[i] : i \in DOMAIN Low}

Range(s) == {s[i] : i \in DOMAIN s}

\* str.lower() of one character
LowerChar(c) ==
    IF \E i \in DOMAIN Upper : Upper[i] = c
    THEN Low[CHOOSE i \in DOMAIN Upper : Upper[i] = c]
    ELSE c

\* str.lower()
Lower(s) == [i \in DOMAIN s |-> LowerChar(s[i])]

\* sub in s
Contains(sub, s) ==
    \E i \in 0..(Len(s) - Len(sub)) : SubSeq(s, i + 1, i + Len(sub)) = sub

\* A plausible slip: a single leading zero dropped.
LStripOneZero(s) == IF s # <<>> /\ Head(s) = "0" THEN Tail(s) ELSE s

\* s.lstrip('0')
RECURSIVE LStripZeros(_)
LStripZeros(s) ==
    IF s # <<>> /\ Head(s) = "0" THEN LStripZeros(Tail(s)) ELSE s

\* s.zfill(w), s without sign
RECURSIVE ZFill(_, _)
ZFill(s, w) == IF Len(s) >= w THEN s ELSE ZFill(<<"0">> \o s, w)

\* s.isdigit()
IsDigit(s) == s # <<>> /\ \A i \in DOMAIN s : s[i] \in Digits

\* s.split('/')[0] if '/' in s else s
RECURSIVE BeforeSlash(_)
BeforeSlash(s) ==
    IF s = <<>> \/ Head(s) = "/" THEN <<>>
    ELSE <<Head(s)>> \o BeforeSlash(Tail(s))

\* The longest prefix of letters: group(1) of ^([A-Za-z]+)(\d+)$ when it matches
RECURSIVE LetterPrefix(_)
LetterPrefix(s) ==
    IF s # <<>> /\ Head(s) \in Letters
    THEN <<Head(s)>> \o LetterPrefix(Tail(s)) ELSE <<>>

\* str(n) of a natural number
DigitChar(d) == CASE d = 0 -> "0" [] d = 1 -> "1" [] d = 2 -> "2" [] d = 3 -> "3"
                  [] d = 4 -> "4" [] d = 5 -> "5" [] d = 6 -> "6" [] d = 7 -> "7"
                  [] d = 8 -> "8" [] OTHER -> "9"
RECURSIVE DecStr(_)
DecStr(n) == IF n < 10 THEN <<DigitChar(n)>>
             ELSE DecStr(n \div 10) \o <<DigitChar(n % 10)>>

\* f"{set_id}-{x}"
CardKey(set_id, x) == set_id \o <<"-">> \o x
\* f"{set_id}-TCG{x}"
TcgKey(set_id, x) == set_id \o <<"-", "T", "C", "G">> \o x

NoCard == <<>>

(***************************************************************************)
(* VariantCard (lines 45-118).                                             *)
(***************************************************************************)
KwMasterBall   == <<"m","a","s","t","e","r"," ","b","a","l","l">>
KwPokeBall     == <<"p","o","k","e"," ","b","a","l","l">>
KwPokeballOne  == <<"p","o","k","e","b","a","l","l">>
KwRainbow      == <<"r","a","i","n","b","o","w">>
KwSecret       == <<"s","e","c","r","e","t">>
KwGold         == <<"g","o","l","d">>
KwAlternateArt == <<"a","l","t","e","r","n","a","t","e"," ","a","r","t">>
SpecialTerms == <<KwRainbow, KwSecret, KwGold, KwAlternateArt>>

\* A plausible slip: the broad "special" bucket tested before the ball keywords.
classify_special_first(product) ==
    LET name == Lower(product.name) IN
    IF \E i \in DOMAIN SpecialTerms : Contains(SpecialTerms[i], name) THEN "special"
    ELSE IF Contains(KwMasterBall, name) THEN "master_ball"
    ELSE IF Contains(KwPokeBall, name) \/ Contains(KwPokeballOne, name) THEN "poke_ball"
    ELSE "base"

\* VariantCard.classify_product_variant
classify_product_variant(product) ==
    LET name == Lower(product.name) IN
    IF Contains(KwMasterBall, name) THEN "master_ball"
    ELSE IF Contains(KwPokeBall, name) \/ Contains(KwPokeballOne, name) THEN "poke_ball"
    ELSE IF \E i \in DOMAIN SpecialTerms : Contains(SpecialTerms[i], name) THEN "special"
    ELSE "base"

\* [p for p in classified_products if p['is_base']]
RECURSIVE SelectBase(_)
SelectBase(cl) ==
    IF cl = <<>> THEN <<>>
    ELSE IF Head(cl).is_base THEN <<Head(cl)>> \o SelectBase(Tail(cl))
    ELSE SelectBase(Tail(cl))

\* A plausible slip: without a base variant the last product becomes primary.
classify_variants_last(prods) ==
    LET classified_products ==
            [i \in DOMAIN prods |->
                [product |-> prods[i],
                 variant_type |-> classify_product_variant(prods[i]),
                 is_base |-> classify_product_variant(prods[i]) = "base"]]
        base_products == SelectBase(classified_products)
    IN  [classified_products |-> classified_products,
         base_product |-> IF base_products # <<>> THEN base_products[1].product
                          ELSE classified_products[Len(prods)].product]

\* VariantCard.classify_variants: the classified list and self.base_product.
\* Called with at least one product (classified_products[0] raises otherwise).
classify_variants(prods) ==
    LET classified_products ==
            [i \in DOMAIN prods |->
                [product |-> prods[i],
                 variant_type |-> classify_product_variant(prods[i]),
                 is_base |-> classify_product_variant(prods[i]) = "base"]]
        base_products == SelectBase(classified_products)
    IN  [classified_products |-> classified_products,
         base_product |-> IF base_products # <<>> THEN base_products[1].product
                          ELSE classified_products[1].product]

DefaultVariantTypes == <<"normal", "reverse", "holo">>

\* A plausible slip: every pattern but base restricted to itself.
VariantTypesNonBase(variant_type) ==
    IF variant_type # "base" THEN <<variant_type>> ELSE DefaultVariantTypes

\* the variant_types expression of lines 104-108, 534 and 590
VariantTypesOf(variant_type) ==
    IF variant_type \in {"poke_ball", "master_ball"} THEN <<variant_type>>
    ELSE DefaultVariantTypes

\* VariantCard.build_tcgplayer_products_array
build_tcgplayer_products_array(classified_products, base_product) ==
    [i \in DOMAIN classified_products |->
        LET product == classified_products[i].product
            variant_type == classified_products[i].variant_type
        IN  [product_id |-> product.productId,
             variant_types |-> VariantTypesOf(variant_type),
             name |-> product.name,
             is_primary |-> product.productId = base_product.productId]]

(***************************************************************************)
(* EnhancedVariantSync.try_multiple_card_ids (lines 305-371).              *)
(***************************************************************************)
\* re.match(r'^([A-Za-z]+)(\d+)$', number_part)
LetterMatch(number_part) ==
    LET letter_prefix == LetterPrefix(number_part)
        number_suffix == SubSeq(number_part, Len(letter_prefix) + 1, Len(number_part))
    IN  letter_prefix # <<>> /\ IsDigit(number_suffix)

AppendIf(cond, s, e) == IF cond THEN Append(s, e) ELSE s

\* lines 307-356: the candidate list possible_ids
possible_ids(set_id, card_number) ==
    LET number_part == IF Contains(<<"/">>, card_number)
                       THEN BeforeSlash(card_number) ELSE card_number
        \* 1. original format
        ids1 == <<CardKey(set_id, number_part)>>
        \* 2. trimmed leading zeros
        stripped == LStripZeros(number_part)
        trimmed_number == IF stripped # <<>> THEN stripped ELSE <<"0">>
        ids2 == AppendIf(trimmed_number # number_part, ids1,
                         CardKey(set_id, trimmed_number))
        \* 3. zero-padded format
        padded_number == ZFill(number_part, 3)
        ids3 == AppendIf(IsDigit(number_part) /\ Len(number_part) < 3
                            /\ padded_number # number_part,
                         ids2, CardKey(set_id, padded_number))
        \* 4. letter prefix with number variations
        letter_prefix == LetterPrefix(number_part)
        number_suffix == SubSeq(number_part, Len(letter_prefix) + 1, Len(number_part))
        two_digit == SubSeq(ZFill(number_suffix, 2),
                            Len(ZFill(number_suffix, 2)) - 1, Len(ZFill(number_suffix, 2)))
        ids4a == AppendIf(Len(number_suffix) > 2 /\ two_digit # number_suffix
                             /\ two_digit # <<"0", "0">>,
                          ids3, CardKey(set_id, letter_prefix \o two_digit))
        stripped_suffix == LStripZeros(number_suffix)
        trimmed_suffix == IF stripped_suffix # <<>> THEN stripped_suffix ELSE <<"0">>
        ids4b == AppendIf(trimmed_suffix # number_suffix, ids4a,
                          CardKey(set_id, letter_prefix \o trimmed_suffix))
        padded_suffix == ZFill(number_suffix, 3)
        ids4c == AppendIf(Len(number_suffix) < 3 /\ padded_suffix # number_suffix,
                          ids4b, CardKey(set_id, letter_prefix \o padded_suffix))
        ids4 == IF LetterMatch(number_part) THEN ids4c ELSE ids3
    IN  \* 5. TCG prefix format for created cards
        Append(ids4, TcgKey(set_id, number_part))

\* A plausible slip: the loop keeps probing and the last hit wins.
RECURSIVE probe_last(_, _)
probe_last(ids, existing) ==
    IF ids = <<>> THEN NoCard
    ELSE IF probe_last(Tail(ids), existing) # NoCard
         THEN probe_last(Tail(ids), existing)
    ELSE IF Head(ids) \in existing THEN Head(ids)
    ELSE NoCard

\* lines 358-371: probe each candidate in order, return the first that exists
RECURSIVE probe_ids(_, _)
probe_ids(ids, existing) ==
    IF ids = <<>> THEN NoCard
    ELSE IF Head(ids) \in existing THEN Head(ids)
    ELSE probe_ids(Tail(ids), existing)

\* EnhancedVariantSync.try_multiple_card_ids against the table `db`
try_multiple_card_ids(db, set_id, card_number) ==
    probe_ids(possible_ids(set_id, card_number), DOMAIN db)

(***************************************************************************)
(* Inputs of the model.                                                    *)
(***************************************************************************)
SetIds == {<<"s","v">>, <<"b","w">>}

\* the characters of the card numbers given to try_multiple_card_ids
NumberChars == {"0", "1", "2", "B"}

RECURSIVE StringsUpTo(_, _)
StringsUpTo(alphabet, n) ==
    IF n = 0 THEN {<<>>}
    ELSE LET shorter == StringsUpTo(alphabet, n - 1)
         IN  shorter \cup {Append(s, c) : s \in shorter, c \in alphabet}

\* the pieces product names are made of
Fragments ==
    {<<"P","i","k","a","c","h","u">>,
     <<" ">>,
     <<"M","a","s","t","e","r"," ","B","a","l","l">>,
     <<"M","A","S","T","E","R"," ","B","A","L","L">>,
     <<"m","a","s","t","e","r">>,
     <<"P","o","k","e"," ","B","a","l","l">>,
     <<"P","o","k","e","B","a","l","l">>,
     <<"p","o","k","e">>,
     <<" ","b","a","l","l">>,
     <<"R","a","i","n","b","o","w">>,
     <<"S","E","C","R","E","T">>,
     <<"G","o","l","d">>,
     <<"A","l","t","e","r","n","a","t","e"," ","A","r","t">>,
     <<"a","l","t","e","r","n","a","t","e">>,
     <<" ","a","r","t">>}

RECURSIVE NamesUpTo(_)
NamesUpTo(n) ==
    IF n = 0 THEN {<<>>}
    ELSE LET shorter == NamesUpTo(n - 1)
         IN  shorter \cup {s \o f : s \in shorter, f \in Fragments}

NumberAttr(value) == <<[name |-> "Number", value |-> value]>>

\* the names of the products of one variant group
GroupNames ==
    {<<"X">>,
     <<"X"," ","(","P","o","k","e"," ","B","a","l","l"," ","P","a","t","t","e","r","n",")">>,
     <<"X"," ","(","M","a","s","t","e","r"," ","B","a","l","l"," ","P","a","t","t","e","r","n",")">>,
     <<"X"," ","G","o","l","d">>}

NoProduct == [productId |-> 0, name |-> <<>>, extendedData |-> <<>>]

IdleVariantCard ==
    [stage |-> "idle", products |-> <<>>, base_product |-> NoProduct,
     classified_products |-> <<>>, products_array |-> <<>>]

IdleLookup ==
    [stage |-> "idle", set_id |-> <<>>, card_number |-> <<>>,
     possible_ids |-> <<>>, card_id |-> NoCard]

\* None, and a value that is not None
None == <<>>
Some(v) == <<v>>

IdleGrading ==
    [stage |-> "idle", value |-> None, fee |-> None, price_raw |-> None,
     psa9_data |-> None, psa10_data |-> None, result |-> None]

IdleMapping ==
    [stage |-> "idle", mappings |-> <<>>, dry_run |-> FALSE, answer |-> "",
     updates |-> <<>>, skipped |-> 0, sets |-> <<>>, success_count |-> 0]

EmptyRow ==
    [tcgplayer_products |-> <<>>, tcgplayer_product_id |-> 0,
     variant_poke_ball |-> FALSE, variant_master_ball |-> FALSE]

(***************************************************************************)
(* One VariantCard object: add_product, classify_variants,                 *)
(* build_tcgplayer_products_array.                                         *)
(***************************************************************************)
SyncIdle ==
    /\ grading = IdleGrading
    /\ mapping = IdleMapping
    /\ store_fails = FALSE
    /\ processed_product_ids = {}
    /\ stats = <<>>
    /\ dry_run = FALSE
    /\ input_data = <<>>
    /\ products = <<>>
    /\ grouped_products = <<>>
    /\ pc = "idle"
    /\ idx = 0
    /\ run = 0

\* VariantCard.__init__
InitVariant ==
    /\ variant_card = [IdleVariantCard EXCEPT !.stage = "new"]
    /\ lookup = IdleLookup
    /\ cards = <<>>
    /\ SyncIdle

\* a VariantCard holding one product of any name
InitClassify ==
    /\ variant_card \in
         {[IdleVariantCard EXCEPT !.stage = "new",
              !.products = <<[productId |-> 1, name |-> n,
                              extendedData |-> NumberAttr(<<"1">>)]>>] :
            n \in NamesUpTo(MaxFragments)}
    /\ lookup = IdleLookup
    /\ cards = <<>>
    /\ SyncIdle

\* VariantCard.add_product, with a product of the group: the marketplace's
\* product ids are unique
VcAddProduct ==
    /\ variant_card.stage = "new"
    /\ Len(variant_card.products) < MaxGroup
    /\ \E id \in 1..MaxGroup, n \in GroupNames :
          /\ \A i \in DOMAIN variant_card.products :
                variant_card.products[i].productId # id
          /\ variant_card' =
                [variant_card EXCEPT !.products =
                    Append(@, [productId |-> id, name |-> n,
                               extendedData |-> NumberAttr(<<"1">>)])]
    /\ UNCHANGED <<cards, lookup, syncVars, grading, mapping>>

VcClassifyVariants ==
    /\ variant_card.stage = "new"
    /\ variant_card.products # <<>>
    /\ LET r == classify_variants(variant_card.products)
       IN  variant_card' =
              [variant_card EXCEPT !.stage = "classified",
                                   !.base_product = r.base_product,
                                   !.classified_products = r.classified_products]
    /\ UNCHANGED <<cards, lookup, syncVars, grading, mapping>>

VcBuildArray ==
    /\ variant_card.stage = "classified"
    /\ variant_card' =
          [variant_card EXCEPT !.stage = "built",
              !.products_array =
                  build_tcgplayer_products_array(variant_card.classified_products,
                                                 variant_card.base_product)]
    /\ UNCHANGED <<cards, lookup, syncVars, grading, mapping>>

NextVariant == VcAddProduct \/ VcClassifyVariants \/ VcBuildArray
SpecVariant == InitVariant /\ [][NextVariant]_vars

NextClassify == VcClassifyVariants \/ VcBuildArray
SpecClassify == InitClassify /\ [][NextClassify]_vars

(***************************************************************************)
(* One call of try_multiple_card_ids.                                      *)
(***************************************************************************)
InitKeys ==
    /\ lookup \in
         {[IdleLookup EXCEPT !.stage = "called", !.set_id = s, !.card_number = n] :
            s \in SetIds, n \in StringsUpTo(NumberChars, MaxNumLen)}
    /\ variant_card = IdleVariantCard
    /\ cards = <<>>
    /\ SyncIdle

KeysBuild ==
    /\ lookup.stage = "called"
    /\ lookup' = [lookup EXCEPT !.stage = "built",
                     !.possible_ids = possible_ids(lookup.set_id, lookup.card_number)]
    /\ UNCHANGED <<cards, variant_card, syncVars, grading, mapping>>

\* The probes read the table.  Only the candidates are looked up, so the table
\* is any set of candidates, with or without a card no candidate names.
OtherCard == <<"x", "y", "-", "9">>

KeysProbe ==
    /\ lookup.stage = "built"
    /\ \E existing \in SUBSET (Range(lookup.possible_ids) \cup {OtherCard}) :
          /\ cards' = [k \in existing |-> EmptyRow]
          /\ lookup' = [lookup EXCEPT !.stage = "returned",
                           !.card_id = probe_ids(lookup.possible_ids, existing)]
    /\ UNCHANGED <<variant_card, syncVars, grading, mapping>>

NextKeys == KeysBuild \/ KeysProbe
SpecKeys == InitKeys /\ [][NextKeys]_vars

(***************************************************************************)
(* EnhancedVariantSync: the handlers.  `st` is the state a handler reads   *)
(* and writes: the table (cards), processed_product_ids and stats.         *)
(***************************************************************************)
\* `if not self.dry_run:` of lines 434, 494, 739 and 828
WritesAlways == TRUE
WritesEnabled == ~dry_run

\* lines 283-303; a lookup that finds no product
check_product_never(db, card_id, product_id) == FALSE
check_product_exists_in_tcg_products(db, card_id, product_id) ==
    /\ card_id \in DOMAIN db
    /\ \E i \in DOMAIN db[card_id].tcgplayer_products :
          db[card_id].tcgplayer_products[i].product_id = product_id

\* any('poke_ball' in p.get('variant_types', []) for p in all_products)
AnyVariant(all_products, v) ==
    \E i \in DOMAIN all_products : v \in Range(all_products[i].variant_types)

\* lines 509-572.  ok = FALSE: the card is not found or the write of lines
\* 566-569 fails, and the method raises.
add_product_to_existing_card(db, card_id, tcg_product) ==
    IF card_id \notin DOMAIN db \/ store_fails THEN [ok |-> FALSE, db |-> db]
    ELSE
    LET current_products == db[card_id].tcgplayer_products
        variant_type == classify_product_variant(tcg_product)
        new_product == [product_id |-> tcg_product.productId,
                        variant_types |-> VariantTypesOf(variant_type),
                        name |-> tcg_product.name,
                        is_primary |-> current_products = <<>>]
        all_products == Append(current_products, new_product)
    IN  [ok |-> TRUE,
         db |-> [db EXCEPT ![card_id] =
                   [tcgplayer_products |-> all_products,
                    tcgplayer_product_id |->
                        IF new_product.is_primary THEN tcg_product.productId
                        ELSE @.tcgplayer_product_id,
                    variant_poke_ball |-> AnyVariant(all_products, "poke_ball"),
                    variant_master_ball |-> AnyVariant(all_products, "master_ball")]]]

\* the table with one more row
InsertRow(db, card_id, row) ==
    [k \in DOMAIN db \cup {card_id} |-> IF k = card_id THEN row ELSE db[k]]

\* lines 574-622
create_new_card_from_tcg_product(db, set_id, tcg_product) ==
    LET card_id == TcgKey(set_id, DecStr(tcg_product.productId))
        variant_type == classify_product_variant(tcg_product)
        products_array == <<[product_id |-> tcg_product.productId,
                             variant_types |-> VariantTypesOf(variant_type),
                             name |-> tcg_product.name,
                             is_primary |-> TRUE]>>
    IN  InsertRow(db, card_id,
            [tcgplayer_products |-> products_array,
             tcgplayer_product_id |-> tcg_product.productId,
             variant_poke_ball |-> variant_type = "poke_ball",
             variant_master_ball |-> variant_type = "master_ball"])

Bump(st, counter) == [st EXCEPT !.stats[counter] = @ + 1]

\* lines 414-447
process_update_action(st, product_action) ==
    LET card_id == product_action.card_id
        tcg_product == IF product_action.tcg_products = <<>> THEN NoProduct
                       ELSE product_action.tcg_products[1]
        product_id == tcg_product.productId
        added == add_product_to_existing_card(st.cards, card_id, tcg_product)
    IN  IF card_id = NoCard \/ product_action.tcg_products = <<>> THEN st
        ELSE IF product_id = 0 THEN st
        ELSE IF check_product_exists_in_tcg_products(st.cards, card_id, product_id)
             THEN st
        ELSE IF WritesEnabled
             THEN IF added.ok
                  THEN [Bump(st, "cards_updated") EXCEPT
                            !.cards = added.db,
                            !.processed_product_ids = @ \cup {product_id}]
                  ELSE Bump(st, "errors")
        ELSE [st EXCEPT !.processed_product_ids = @ \cup {product_id}]

\* lines 470-507; the insert of lines 617-619 raises when the write fails
create_single_card_from_product(st, set_id, tcg_product) ==
    LET product_id == tcg_product.productId
        card_id == TcgKey(set_id, DecStr(product_id))
    IN  IF product_id = 0 THEN st
        ELSE IF card_id \in DOMAIN st.cards THEN st
        ELSE IF WritesEnabled /\ store_fails THEN Bump(st, "errors")
        ELSE IF WritesEnabled
             THEN [Bump(st, "cards_created") EXCEPT
                       !.cards = create_new_card_from_tcg_product(st.cards, set_id,
                                                                  tcg_product),
                       !.processed_product_ids = @ \cup {product_id}]
        ELSE [st EXCEPT !.processed_product_ids = @ \cup {product_id}]

\* lines 449-468: one card per product of the action, in order
RECURSIVE CreateEach(_, _, _)
CreateEach(st, set_id, tcg_products) ==
    IF tcg_products = <<>> THEN st
    ELSE CreateEach(create_single_card_from_product(st, set_id, Head(tcg_products)),
                    set_id, Tail(tcg_products))

process_create_action(st, set_id, product_action) ==
    CreateEach(st, set_id, product_action.tcg_products)

\* lines 842-904
update_card_variant_data(db, card_id, base_product, products_array, is_single_product) ==
    LET current_products == IF card_id \in DOMAIN db
                            THEN db[card_id].tcgplayer_products ELSE <<>>
        new_product == [product_id |-> base_product.productId,
                        variant_types |-> DefaultVariantTypes,
                        name |-> base_product.name,
                        is_primary |-> Len(current_products) = 0]
        appended == IF is_single_product THEN <<new_product>> ELSE products_array
        all_products == current_products \o appended
        primaries == {i \in DOMAIN all_products : all_products[i].is_primary}
        primary_product_id ==
            IF primaries # {}
            THEN all_products[CHOOSE i \in primaries : \A j \in primaries : i <= j].product_id
            ELSE IF all_products # <<>> THEN all_products[1].product_id
            ELSE base_product.productId
    IN  IF card_id \notin DOMAIN db THEN db
        ELSE [db EXCEPT ![card_id] =
                [tcgplayer_products |-> all_products,
                 tcgplayer_product_id |-> primary_product_id,
                 variant_poke_ball |-> AnyVariant(all_products, "poke_ball"),
                 variant_master_ball |-> AnyVariant(all_products, "master_ball")]]

\* lines 844-904, the try and its except: a write that fails is counted in
\* errors and the method returns as after a write that worked
try_update_card_variant_data(st, card_id, base_product, products_array, is_single) ==
    IF store_fails THEN Bump(st, "errors")
    ELSE [st EXCEPT !.cards = update_card_variant_data(st.cards, card_id, base_product,
                                                       products_array, is_single)]

\* lines 722-730: the record of an unmapped single product
UnmappedSingle(set_id, card_number, product) ==
    [set_id |-> set_id, card_number |-> card_number,
     product_name |-> product.name, product_id |-> product.productId,
     reason |-> "Card not found in database", action |-> "review",
     tcg_product |-> product]

\* a record that forgets all but the first product of the group
UnmappedMultiFirst(set_id, card_number, unprocessed_products) ==
    [set_id |-> set_id, card_number |-> card_number,
     product_names |-> <<unprocessed_products[1].name>>,
     product_ids |-> <<unprocessed_products[1].productId>>,
     reason |-> "Multi-variant card not found in database", action |-> "review",
     tcg_products |-> <<unprocessed_products[1]>>]

\* lines 785-793: the record of an unmapped variant group
UnmappedMulti(set_id, card_number, unprocessed_products) ==
    [set_id |-> set_id, card_number |-> card_number,
     product_names |-> [i \in DOMAIN unprocessed_products |-> unprocessed_products[i].name],
     product_ids |-> [i \in DOMAIN unprocessed_products |->
                         unprocessed_products[i].productId],
     reason |-> "Multi-variant card not found in database", action |-> "review",
     tcg_products |-> unprocessed_products]

AddUnmapped(st, rec) == [st EXCEPT !.stats.unmapped_cards = Append(@, rec)]

\* lines 695-749: the state after the call and the value returned
sync_single_product_card(st, set_id, card_number, product) ==
    LET product_id == product.productId
        tcg_card_id == TcgKey(set_id, DecStr(product_id))
        card_id == try_multiple_card_ids(st.cards, set_id, card_number)
    IN  IF product_id \in st.processed_product_ids THEN [st |-> st, ret |-> TRUE]
        ELSE IF tcg_card_id \in DOMAIN st.cards THEN [st |-> st, ret |-> TRUE]
        ELSE IF card_id = NoCard
             THEN [st |-> AddUnmapped(st, UnmappedSingle(set_id, card_number, product)),
                   ret |-> FALSE]
        ELSE IF check_product_exists_in_tcg_products(st.cards, card_id, product_id)
             THEN [st |-> st, ret |-> TRUE]
        ELSE IF WritesEnabled
             THEN [st |-> Bump(try_update_card_variant_data(st, card_id, product,
                                                            <<>>, TRUE),
                               "cards_updated"),
                   ret |-> TRUE]
        ELSE [st |-> st, ret |-> TRUE]

\* lines 751-840: the state after the call and the value returned
sync_multi_variant_card(st, set_id, card_number, prods) ==
    LET NotProcessed(p) == p.productId \notin st.processed_product_ids
        NoTcgCard(p) == TcgKey(set_id, DecStr(p.productId)) \notin DOMAIN st.cards
        unprocessed_products == SelectSeq(SelectSeq(prods, NotProcessed), NoTcgCard)
        card_id == try_multiple_card_ids(st.cards, set_id, card_number)
        IsNew(p) == ~check_product_exists_in_tcg_products(st.cards, card_id, p.productId)
        new_products == SelectSeq(unprocessed_products, IsNew)
        variant == classify_variants(new_products)
        products_array == build_tcgplayer_products_array(variant.classified_products,
                                                         variant.base_product)
    IN  IF unprocessed_products = <<>> THEN [st |-> st, ret |-> TRUE]
        ELSE IF card_id = NoCard
             THEN [st |-> AddUnmapped(st, UnmappedMulti(set_id, card_number,
                                                        unprocessed_products)),
                   ret |-> FALSE]
        ELSE IF new_products = <<>> THEN [st |-> st, ret |-> TRUE]
        ELSE IF WritesEnabled
             THEN [st |-> Bump(Bump(try_update_card_variant_data(st, card_id,
                                         variant.base_product, products_array, FALSE),
                                    "cards_updated"),
                               "variants_fixed"),
                   ret |-> TRUE]
        ELSE [st |-> st, ret |-> TRUE]

(***************************************************************************)
(* Grouping of the marketplace products (lines 234-277).                   *)
(***************************************************************************)
CardAttributes == {"Number", "Rarity", "HP", "Stage", "Card Type"}

\* lines 266-277
is_card_product(product) ==
    /\ product.extendedData # <<>>
    /\ \E i \in DOMAIN product.extendedData :
          product.extendedData[i].name \in CardAttributes

\* A plausible slip: the loop does not return at the first "Number".
extract_last_number(product) ==
    LET numbered == {i \in DOMAIN product.extendedData :
                        product.extendedData[i].name = "Number"}
    IN  IF numbered = {} THEN <<>>
        ELSE product.extendedData[CHOOSE i \in numbered :
                                     \A j \in numbered : i >= j].value

\* lines 234-243: the value of the first "Number" attribute, <<>> for None
extract_card_number(product) ==
    LET numbered == {i \in DOMAIN product.extendedData :
                        product.extendedData[i].name = "Number"}
    IN  IF numbered = {} THEN <<>>
        ELSE product.extendedData[CHOOSE i \in numbered :
                                     \A j \in numbered : i <= j].value

\* grouped[number_part].append(product), the dict keeping insertion order
AddToGroup(grouped, number_part, product) ==
    IF \E i \in DOMAIN grouped : grouped[i].card_number = number_part
    THEN [i \in DOMAIN grouped |->
            IF grouped[i].card_number = number_part
            THEN [grouped[i] EXCEPT !.products = Append(@, product)]
            ELSE grouped[i]]
    ELSE Append(grouped, [card_number |-> number_part, products |-> <<product>>])

\* lines 245-264, from the groups collected so far
RECURSIVE GroupFrom(_, _)
GroupFrom(grouped, prods) ==
    IF prods = <<>> THEN grouped
    ELSE LET product == Head(prods)
             card_number == extract_card_number(product)
             number_part == IF Contains(<<"/">>, card_number)
                            THEN BeforeSlash(card_number) ELSE card_number
         IN  IF ~is_card_product(product) \/ card_number = <<>>
             THEN GroupFrom(grouped, Tail(prods))
             ELSE GroupFrom(AddToGroup(grouped, number_part, product), Tail(prods))

group_products_by_card_number(prods) == GroupFrom(<<>>, prods)

\* One call of group_products_by_card_number.  The extendedData a product can
\* carry: none (a sealed product), a non-card attribute, a card attribute
\* other than "Number", and "Number" values with and without "/", empty, and
\* given twice.
Attr(name, value) == [name |-> name, value |-> value]

ListedData ==
    {<<>>,
     <<Attr("Weight", <<"9">>)>>,
     <<Attr("Rarity", <<"R">>)>>,
     <<Attr("Number", <<"1">>)>>,
     <<Attr("Rarity", <<"R">>), Attr("Number", <<"1", "/", "9">>)>>,
     <<Attr("Number", <<"2", "/", "9", "/", "3">>)>>,
     <<Attr("Number", <<>>), Attr("Number", <<"1">>)>>,
     <<Attr("Number", <<"2">>), Attr("Number", <<"1">>)>>,
     <<Attr("Weight", <<"9">>), Attr("Number", <<"0", "2">>)>>}

\* the lists of n products, the i-th with product id i
Listings(n) ==
    {[i \in 1..n |-> [productId |-> i, name |-> <<"X">>, extendedData |-> d[i]]] :
        d \in [1..n -> ListedData]}

InitGroup ==
    /\ \E n \in 0..MaxListed : products \in Listings(n)
    /\ grouped_products = <<>>
    /\ pc = "listed"
    /\ processed_product_ids = {}
    /\ stats = <<>>
    /\ dry_run = FALSE
    /\ input_data = <<>>
    /\ idx = 0
    /\ run = 0
    /\ cards = <<>>
    /\ variant_card = IdleVariantCard
    /\ lookup = IdleLookup
    /\ grading = IdleGrading
    /\ mapping = IdleMapping
    /\ store_fails = FALSE

GroupProducts ==
    /\ pc = "listed"
    /\ grouped_products' = group_products_by_card_number(products)
    /\ pc' = "grouped"
    /\ UNCHANGED <<cards, processed_product_ids, stats, dry_run, input_data, products,
                   idx, run, variant_card, lookup, grading, mapping,
                   store_fails>>

NextGroup == GroupProducts
SpecGroup == InitGroup /\ [][NextGroup]_vars

(***************************************************************************)
(* sync_set_variants over one set, run after run (lines 624-693, 995-1028).*)
(***************************************************************************)
SyncSetId == <<"s","v">>

\* the cards the catalog may hold for the set before the first run
CatalogKeys == {CardKey(SyncSetId, <<"1">>), CardKey(SyncSetId, <<"0","0","1">>)}

\* the card an input 'update' action names
UpdateTargets == {CardKey(SyncSetId, <<"0","0","1">>)}

MarketNames == {<<"X">>, <<"X"," ","(","P","o","k","e"," ","B","a","l","l"," ","P","a","t","t","e","r","n",")">>}

\* extendedData of a marketplace product: a card numbered "1", a card numbered
\* "01/9"
NumberedAttrs == {NumberAttr(<<"1">>), NumberAttr(<<"0","1","/","9">>)}

\* a card without a "Number"
UnnumberedAttrs == <<[name |-> "Rarity", value |-> <<"R">>]>>

\* the products the marketplace can list under a product id
MarketProducts(id) ==
    {[productId |-> id, name |-> n, extendedData |-> a] :
        n \in MarketNames, a \in NumberedAttrs}
    \cup {[productId |-> id, name |-> <<"X">>, extendedData |-> UnnumberedAttrs]}

\* the marketplace lists of n products; product ids are unique
Markets(n) ==
    {m \in [1..n -> UNION {MarketProducts(id) : id \in 1..n}] :
        \A i \in 1..n : m[i].productId = i}

\* the input actions a file can hold about the products of the list `m`
ActionsOn(m) ==
    {[action |-> a, card_id |-> NoCard, tcg_products |-> <<>>] : a \in {"review", "skip"}}
    \cup {[action |-> "update", card_id |-> c, tcg_products |-> <<m[i]>>] :
            c \in UpdateTargets, i \in DOMAIN m}
    \cup {[action |-> "create", card_id |-> NoCard, tcg_products |-> <<m[i]>>] :
            i \in DOMAIN m}
    \cup {[action |-> "create", card_id |-> NoCard, tcg_products |-> m] : i \in {1}}

RECURSIVE SeqsUpTo(_, _)
SeqsUpTo(S, n) ==
    IF n = 0 THEN {<<>>}
    ELSE LET shorter == SeqsUpTo(S, n - 1)
         IN  shorter \cup {Append(q, x) : q \in shorter, x \in S}

\* lines 138-148
NewStats ==
    [sets_processed |-> 0, cards_updated |-> 0, cards_created |-> 0,
     variants_fixed |-> 0, multi_product_cards |-> 0, input_actions_processed |-> 0,
     automatic_updates |-> 0, errors |-> 0, unmapped_cards |-> <<>>]

\* EnhancedVariantSync.__init__ and main() up to the call of sync_set_variants
Init ==
    /\ \E n \in 0..MaxProducts : products \in Markets(n)
    /\ input_data \in SeqsUpTo(ActionsOn(products), MaxActions)
    /\ \E existing \in SUBSET CatalogKeys : cards = [k \in existing |-> EmptyRow]
    /\ dry_run \in BOOLEAN
    /\ processed_product_ids = {}
    /\ stats = NewStats
    /\ grouped_products = <<>>
    /\ pc = "input"
    /\ idx = 1
    /\ run = 1
    /\ variant_card = IdleVariantCard
    /\ lookup = IdleLookup
    /\ grading = IdleGrading
    /\ mapping = IdleMapping
    /\ store_fails = FALSE

Self == [cards |-> cards, processed_product_ids |-> processed_product_ids,
         stats |-> stats]

Becomes(st) ==
    /\ cards' = st.cards
    /\ processed_product_ids' = st.processed_product_ids
    /\ stats' = st.stats

AtInput(kind) ==
    /\ pc = "input"
    /\ idx <= Len(input_data)
    /\ input_data[idx].action = kind

\* lines 401-402: a 'review' entry is passed over
ProcessReview ==
    /\ AtInput("review")
    /\ idx' = idx + 1
    /\ UNCHANGED <<cards, processed_product_ids, stats, dry_run, input_data, products,
                   grouped_products, pc, run, variant_card, lookup, grading, mapping,
                   store_fails>>

\* lines 409-410: a 'skip' entry is counted
ProcessSkip ==
    /\ AtInput("skip")
    /\ Becomes(Bump(Self, "input_actions_processed"))
    /\ idx' = idx + 1
    /\ UNCHANGED <<dry_run, input_data, products, grouped_products, pc, run,
                   variant_card, lookup, grading, mapping,
                   store_fails>>

\* lines 403-405
ProcessUpdate ==
    /\ AtInput("update")
    /\ Becomes(Bump(process_update_action(Self, input_data[idx]),
                    "input_actions_processed"))
    /\ idx' = idx + 1
    /\ UNCHANGED <<dry_run, input_data, products, grouped_products, pc, run,
                   variant_card, lookup, grading, mapping,
                   store_fails>>

\* lines 406-408
ProcessCreate ==
    /\ AtInput("create")
    /\ Becomes(Bump(process_create_action(Self, SyncSetId, input_data[idx]),
                    "input_actions_processed"))
    /\ idx' = idx + 1
    /\ UNCHANGED <<dry_run, input_data, products, grouped_products, pc, run,
                   variant_card, lookup, grading, mapping,
                   store_fails>>

\* lines 657-665: the products are fetched and grouped; no product ends the run
FetchAndGroup ==
    /\ pc = "input"
    /\ idx > Len(input_data)
    /\ IF products = <<>>
       THEN /\ pc' = "done"
            /\ grouped_products' = <<>>
       ELSE /\ pc' = "auto"
            /\ grouped_products' = group_products_by_card_number(products)
    /\ idx' = 1
    /\ UNCHANGED <<cards, processed_product_ids, stats, dry_run, input_data, products,
                   run, variant_card, lookup, grading, mapping,
                   store_fails>>

AtGroup ==
    /\ pc = "auto"
    /\ idx <= Len(grouped_products)

\* lines 680-683
SyncSingle ==
    /\ AtGroup
    /\ Len(grouped_products[idx].products) = 1
    /\ LET r == sync_single_product_card(Self, SyncSetId,
                    grouped_products[idx].card_number, grouped_products[idx].products[1])
       IN  Becomes(IF r.ret THEN Bump(r.st, "automatic_updates") ELSE r.st)
    /\ idx' = idx + 1
    /\ UNCHANGED <<dry_run, input_data, products, grouped_products, pc, run,
                   variant_card, lookup, grading, mapping,
                   store_fails>>

\* lines 684-688
SyncMulti ==
    /\ AtGroup
    /\ Len(grouped_products[idx].products) # 1
    /\ LET r == sync_multi_variant_card(Self, SyncSetId,
                    grouped_products[idx].card_number, grouped_products[idx].products)
       IN  Becomes(Bump(IF r.ret THEN Bump(r.st, "automatic_updates") ELSE r.st,
                        "multi_product_cards"))
    /\ idx' = idx + 1
    /\ UNCHANGED <<dry_run, input_data, products, grouped_products, pc, run,
                   variant_card, lookup, grading, mapping,
                   store_fails>>

\* lines 692-693
FinishSet ==
    /\ pc = "auto"
    /\ idx > Len(grouped_products)
    /\ Becomes(Bump(Self, "sets_processed"))
    /\ pc' = "done"
    /\ UNCHANGED <<dry_run, input_data, products, grouped_products, idx, run,
                   variant_card, lookup, grading, mapping,
                   store_fails>>

\* The script is started again over the same set, with the same marketplace
\* list, input file and --dry-run flag: a new EnhancedVariantSync (lines
\* 1008-1018).  A dry run leaves nothing behind, so a real run after a dry run
\* is a first run.
RunAgain ==
    /\ pc = "done"
    /\ run < MaxRuns
    /\ run' = run + 1
    /\ processed_product_ids' = {}
    /\ stats' = NewStats
    /\ grouped_products' = <<>>
    /\ pc' = "input"
    /\ idx' = 1
    /\ UNCHANGED <<cards, dry_run, input_data, products, variant_card, lookup, grading, mapping,
                   store_fails>>

Next ==
    \/ ProcessReview
    \/ ProcessSkip
    \/ ProcessUpdate
    \/ ProcessCreate
    \/ FetchAndGroup
    \/ SyncSingle
    \/ SyncMulti
    \/ FinishSet
    \/ RunAgain

Spec == Init /\ [][Next]_vars

\* The same sync against a table that refuses every write (the update and
\* insert calls raise); the reads work.
InitFailing ==
    /\ \E n \in 0..MaxProducts : products \in Markets(n)
    /\ input_data \in SeqsUpTo(ActionsOn(products), MaxActions)
    /\ \E existing \in SUBSET CatalogKeys : cards = [k \in existing |-> EmptyRow]
    /\ dry_run = FALSE
    /\ store_fails = TRUE
    /\ processed_product_ids = {}
    /\ stats = NewStats
    /\ grouped_products = <<>>
    /\ pc = "input"
    /\ idx = 1
    /\ run = 1
    /\ variant_card = IdleVariantCard
    /\ lookup = IdleLookup
    /\ grading = IdleGrading
    /\ mapping = IdleMapping

SpecFailing == InitFailing /\ [][Next]_vars

(***************************************************************************)
(* scripts/sync_pokemon_price_tracker.py: get_grading_fee and              *)
(* PokemonPriceTrackerSync.calculate_grading_potential.                    *)
(*                                                                         *)
(* Money is an integer number of thousandths of a dollar (19.99 is 19990), *)
(* a return on investment an integer number of hundredths of a percent.    *)
(* An optional value is None (<<>>) or Some(v) (<<v>>).                    *)
(***************************************************************************)
COST_SHIPPING == 9990

COST_BULK == 19990
COST_VAL_MAX == 59990
COST_REGULAR == 74990
COST_EXPRESS == 149000
COST_SUPER == 299000
COST_WALK == 599000
COST_PREM_1 == 999000
COST_PREM_2 == 1999000
COST_PREM_3 == 2999000
COST_PREM_5 == 4999000
COST_PREM_10_BASE == 9999000
COST_PREM_10_ADD == 399000

LIMIT_BULK == 499000
LIMIT_VAL_MAX == 1000000
LIMIT_REGULAR == 1500000
LIMIT_EXPRESS == 2500000
LIMIT_SUPER == 5000000
LIMIT_WALK == 10000000
LIMIT_PREM_1 == 25000000
LIMIT_PREM_2 == 50000000
LIMIT_PREM_3 == 100000000
LIMIT_PREM_5 == 250000000
LIMIT_PREM_10_BASE == 350000000

\* the 10000 of `overage / 10000`
OverageStep == 10000000

\* math.ceil(a / b), b > 0
CeilDiv(a, b) == (a + b - 1) \div b

\* A plausible slip: the fees of two neighbouring tiers exchanged.
get_grading_fee_swapped(value) ==
    IF value = None \/ value[1] <= 0 THEN COST_BULK
    ELSE LET v == value[1] IN
         IF v <= LIMIT_BULK THEN COST_BULK
         ELSE IF v <= LIMIT_VAL_MAX THEN COST_REGULAR
         ELSE IF v <= LIMIT_REGULAR THEN COST_VAL_MAX
         ELSE IF v <= LIMIT_EXPRESS THEN COST_EXPRESS
         ELSE IF v <= LIMIT_SUPER THEN COST_SUPER
         ELSE IF v <= LIMIT_WALK THEN COST_WALK
         ELSE IF v <= LIMIT_PREM_1 THEN COST_PREM_1
         ELSE IF v <= LIMIT_PREM_2 THEN COST_PREM_2
         ELSE IF v <= LIMIT_PREM_3 THEN COST_PREM_3
         ELSE IF v <= LIMIT_PREM_5 THEN COST_PREM_5
         ELSE IF v <= LIMIT_PREM_10_BASE THEN COST_PREM_10_BASE
         ELSE COST_PREM_10_BASE
                 + COST_PREM_10_ADD * CeilDiv(v - LIMIT_PREM_10_BASE, OverageStep)

\* A plausible slip: the ceilings compared with < instead of <=.
get_grading_fee_strict(value) ==
    IF value = None \/ value[1] <= 0 THEN COST_BULK
    ELSE LET v == value[1] IN
         IF v < LIMIT_BULK THEN COST_BULK
         ELSE IF v < LIMIT_VAL_MAX THEN COST_VAL_MAX
         ELSE IF v < LIMIT_REGULAR THEN COST_REGULAR
         ELSE IF v < LIMIT_EXPRESS THEN COST_EXPRESS
         ELSE IF v < LIMIT_SUPER THEN COST_SUPER
         ELSE IF v < LIMIT_WALK THEN COST_WALK
         ELSE IF v < LIMIT_PREM_1 THEN COST_PREM_1
         ELSE IF v < LIMIT_PREM_2 THEN COST_PREM_2
         ELSE IF v < LIMIT_PREM_3 THEN COST_PREM_3
         ELSE IF v < LIMIT_PREM_5 THEN COST_PREM_5
         ELSE IF v < LIMIT_PREM_10_BASE THEN COST_PREM_10_BASE
         ELSE COST_PREM_10_BASE
                 + COST_PREM_10_ADD * CeilDiv(v - LIMIT_PREM_10_BASE, OverageStep)

\* get_grading_fee (lines 84-125)
get_grading_fee(value) ==
    IF value = None \/ value[1] <= 0 THEN COST_BULK
    ELSE LET v == value[1] IN
         IF v <= LIMIT_BULK THEN COST_BULK
         ELSE IF v <= LIMIT_VAL_MAX THEN COST_VAL_MAX
         ELSE IF v <= LIMIT_REGULAR THEN COST_REGULAR
         ELSE IF v <= LIMIT_EXPRESS THEN COST_EXPRESS
         ELSE IF v <= LIMIT_SUPER THEN COST_SUPER
         ELSE IF v <= LIMIT_WALK THEN COST_WALK
         ELSE IF v <= LIMIT_PREM_1 THEN COST_PREM_1
         ELSE IF v <= LIMIT_PREM_2 THEN COST_PREM_2
         ELSE IF v <= LIMIT_PREM_3 THEN COST_PREM_3
         ELSE IF v <= LIMIT_PREM_5 THEN COST_PREM_5
         ELSE IF v <= LIMIT_PREM_10_BASE THEN COST_PREM_10_BASE
         ELSE COST_PREM_10_BASE
                 + COST_PREM_10_ADD * CeilDiv(v - LIMIT_PREM_10_BASE, OverageStep)

\* Python truth of an optional number: not None and not 0
Truthy(x) == x # None /\ x[1] # 0

\* x, a number of 1/unit, rounded to the nearest whole; the inputs of the model
\* put no value on a tie
RoundTo(x, unit) == (2 * x + unit) \div (2 * unit)

\* round(x, 2) of an amount: the nearest cent, in thousandths
Round2(x) == 10 * RoundTo(x, 10)

\* round((profit / total_cost) * 100, 2), in hundredths of a percent, by long
\* division one decimal digit at a time
RECURSIVE QuotientDigits(_, _, _, _)
QuotientDigits(q, r, d, n) ==
    IF n = 0 THEN [q |-> q, r |-> r]
    ELSE QuotientDigits(10 * q + (10 * r) \div d, (10 * r) % d, d, n - 1)

\* A plausible slip: the quotient cut after two decimals instead of rounded.
RoiTruncated(profit, total_cost) ==
    LET p == profit \div 10
        t == total_cost \div 10
        a == IF p < 0 THEN -p ELSE p
        whole == QuotientDigits(a \div t, a % t, t, 4)
    IN  IF p < 0 THEN -whole.q ELSE whole.q

RoiOf(profit, total_cost) ==
    LET p == profit \div 10
        t == total_cost \div 10
        a == IF p < 0 THEN -p ELSE p
        whole == QuotientDigits(a \div t, a % t, t, 4)
        up == IF 2 * whole.r >= t THEN 1 ELSE 0
    IN  IF p < 0 THEN -(whole.q + up) ELSE whole.q + up

\* lines 329-339
default_result ==
    [grading_cost_basis_entry |-> None, grading_fee_entry |-> None,
     grading_fee_psa9 |-> None, grading_fee_psa10 |-> None,
     profit_at_psa9 |-> None, profit_at_psa10 |-> None, roi_psa10 |-> None,
     upcharge_potential |-> FALSE, grading_safety_tier |-> None]

\* the graded data of the pricing API: None, a dict without a smartMarketPrice
\* dict, a dict whose smartMarketPrice holds a price or no price
NoSmartPrice == [sales |-> 1]
GradedWith(price) == [smartMarketPrice |-> [price |-> price]]

\* lines 345-357: smartMarketPrice.price of the graded data
ExtractPrice(data) ==
    IF data = None THEN None
    ELSE IF "smartMarketPrice" \notin DOMAIN data THEN None
    ELSE data.smartMarketPrice.price

MIN_PSA10_PROFIT_FOR_SAFE_BET == 20000

\* the 125 of `roi_psa10 > 125`
RoiThreshold == 12500

Max(a, b) == IF a >= b THEN a ELSE b

\* round(x, 2) if x else None
RoundedOrNone(x) == IF Truthy(x) THEN Some(Round2(x[1])) ELSE None

\* lines 369-374 and 377-387 with the fee taken from the graded price alone
GradeFeeOnly(grading_fee_entry, price_raw, price) ==
    IF Truthy(price) /\ price[1] > 0
    THEN LET fee == get_grading_fee(price)
             total_cost == fee + COST_SHIPPING + price_raw
         IN  [fee |-> Some(fee), total_cost |-> Some(total_cost),
              profit |-> Some(Round2(price[1] - total_cost))]
    ELSE [fee |-> None, total_cost |-> None, profit |-> None]

\* lines 369-374 and 377-387: fee, total cost and profit of one grade
GradeScenario(grading_fee_entry, price_raw, price) ==
    IF Truthy(price) /\ price[1] > 0
    THEN LET fee == Max(grading_fee_entry, get_grading_fee(price))
             total_cost == fee + COST_SHIPPING + price_raw
         IN  [fee |-> Some(fee), total_cost |-> Some(total_cost),
              profit |-> Some(Round2(price[1] - total_cost))]
    ELSE [fee |-> None, total_cost |-> None, profit |-> None]

\* lines 390-394 with the grade-9 fee forgotten
UpchargeGrade10Only(grading_fee_entry, fee9, fee10) ==
    Truthy(fee10) /\ fee10[1] > grading_fee_entry

\* lines 390-394: upcharge_potential
UpchargePotential(grading_fee_entry, fee9, fee10) ==
    \/ (Truthy(fee9) /\ fee9[1] > grading_fee_entry)
    \/ (Truthy(fee10) /\ fee10[1] > grading_fee_entry)

\* A plausible slip: SAFE_BET without the 20-dollar floor on the grade-10 profit.
SafetyTierNoFloor(profit_at_psa9, profit_at_psa10, roi_psa10) ==
    IF profit_at_psa9 # None
    THEN IF /\ profit_at_psa9[1] >= 0
            /\ profit_at_psa10 # None
            /\ profit_at_psa10[1] >= 0
         THEN Some("SAFE_BET")
         ELSE IF /\ roi_psa10 # None
                 /\ roi_psa10[1] > RoiThreshold
                 /\ profit_at_psa10 # None
                 /\ profit_at_psa10[1] > 0
              THEN Some("GAMBLE")
         ELSE Some("DO_NOT_GRADE")
    ELSE IF profit_at_psa10 # None
    THEN IF roi_psa10 # None /\ roi_psa10[1] > RoiThreshold /\ profit_at_psa10[1] > 0
         THEN Some("GAMBLE")
         ELSE Some("DO_NOT_GRADE")
    ELSE None

\* A plausible slip: the GAMBLE test made before the SAFE_BET test.
SafetyTierGambleFirst(profit_at_psa9, profit_at_psa10, roi_psa10) ==
    IF profit_at_psa9 = None /\ profit_at_psa10 = None THEN None
    ELSE IF /\ roi_psa10 # None
            /\ roi_psa10[1] > RoiThreshold
            /\ profit_at_psa10 # None
            /\ profit_at_psa10[1] > 0
    THEN Some("GAMBLE")
    ELSE IF /\ profit_at_psa9 # None
            /\ profit_at_psa9[1] >= 0
            /\ profit_at_psa10 # None
            /\ profit_at_psa10[1] >= MIN_PSA10_PROFIT_FOR_SAFE_BET
    THEN Some("SAFE_BET")
    ELSE Some("DO_NOT_GRADE")

\* lines 402-417: the safety tier
SafetyTier(profit_at_psa9, profit_at_psa10, roi_psa10) ==
    IF profit_at_psa9 # None
    THEN IF /\ profit_at_psa9[1] >= 0
            /\ profit_at_psa10 # None
            /\ profit_at_psa10[1] >= MIN_PSA10_PROFIT_FOR_SAFE_BET
         THEN Some("SAFE_BET")
         ELSE IF /\ roi_psa10 # None
                 /\ roi_psa10[1] > RoiThreshold
                 /\ profit_at_psa10 # None
                 /\ profit_at_psa10[1] > 0
              THEN Some("GAMBLE")
         ELSE Some("DO_NOT_GRADE")
    ELSE IF profit_at_psa10 # None
    THEN IF roi_psa10 # None /\ roi_psa10[1] > RoiThreshold /\ profit_at_psa10[1] > 0
         THEN Some("GAMBLE")
         ELSE Some("DO_NOT_GRADE")
    ELSE None

\* A plausible slip: the first test reads only `price_raw is None`.
insufficient_none_only(price_raw, price_psa9, price_psa10) ==
    \/ price_raw = None
    \/ (~Truthy(price_psa9) /\ ~Truthy(price_psa10))

\* lines 342-343 and 360-361: the early returns of the default result
insufficient_data(price_raw, price_psa9, price_psa10) ==
    \/ ~Truthy(price_raw) \/ price_raw[1] <= 0
    \/ (~Truthy(price_psa9) /\ ~Truthy(price_psa10))

\* calculate_grading_potential (lines 310-430)
calculate_grading_potential(price_raw, psa9_data, psa10_data) ==
    LET price_psa9 == ExtractPrice(psa9_data)
        price_psa10 == ExtractPrice(psa10_data)
    IN  IF insufficient_data(price_raw, price_psa9, price_psa10) THEN default_result
        ELSE
        LET grading_fee_entry == get_grading_fee(price_raw)
            grading_cost_basis_entry == grading_fee_entry + COST_SHIPPING
            psa9 == GradeScenario(grading_fee_entry, price_raw[1], price_psa9)
            psa10 == GradeScenario(grading_fee_entry, price_raw[1], price_psa10)
            roi_psa10 == IF psa10.profit # None /\ psa10.total_cost[1] > 0
                         THEN Some(RoiOf(psa10.profit[1], psa10.total_cost[1]))
                         ELSE None
            upcharge_potential == UpchargePotential(grading_fee_entry, psa9.fee, psa10.fee)
        IN  [grading_cost_basis_entry |-> RoundedOrNone(Some(grading_cost_basis_entry)),
             grading_fee_entry |-> RoundedOrNone(Some(grading_fee_entry)),
             grading_fee_psa9 |-> RoundedOrNone(psa9.fee),
             grading_fee_psa10 |-> RoundedOrNone(psa10.fee),
             profit_at_psa9 |-> psa9.profit,
             profit_at_psa10 |-> psa10.profit,
             roi_psa10 |-> roi_psa10,
             upcharge_potential |-> upcharge_potential,
             grading_safety_tier |-> SafetyTier(psa9.profit, psa10.profit, roi_psa10)]

\* The declared values get_grading_fee is asked about: none, zero, negative,
\* each ceiling of the ladder with the values a thousandth and a cent around
\* it, and values over the highest ceiling around the 10000-dollar steps.
Ceilings ==
    {LIMIT_BULK, LIMIT_VAL_MAX, LIMIT_REGULAR, LIMIT_EXPRESS, LIMIT_SUPER, LIMIT_WALK,
     LIMIT_PREM_1, LIMIT_PREM_2, LIMIT_PREM_3, LIMIT_PREM_5, LIMIT_PREM_10_BASE}

DeclaredValues ==
    {None, Some(0), Some(-10), Some(10), Some(50000)}
    \cup {Some(c + d) : c \in Ceilings, d \in {-10, -1, 0, 1, 10}}
    \cup {Some(LIMIT_PREM_10_BASE + k * OverageStep + d) :
             k \in {1, 2, 5}, d \in {-10, 0, 10}}

\* the raw price of a card, in whole cents
RawPrices ==
    {None, Some(0), Some(-10), Some(10000), Some(50000), Some(499000), Some(600000)}

\* the smartMarketPrice.price of a grade
GradedPrices ==
    {None, Some(0), Some(-5000), Some(60004), Some(80000), Some(200000),
     Some(500000), Some(1000006), Some(2000000)}

GradedData == {None, NoSmartPrice} \cup {GradedWith(price) : price \in GradedPrices}

InitGrading ==
    /\ grading \in
         {[IdleGrading EXCEPT !.stage = "new", !.price_raw = r,
                              !.psa9_data = d9, !.psa10_data = d10] :
            r \in RawPrices, d9 \in GradedData, d10 \in GradedData}
    /\ processed_product_ids = {}
    /\ stats = <<>>
    /\ dry_run = FALSE
    /\ input_data = <<>>
    /\ products = <<>>
    /\ grouped_products = <<>>
    /\ pc = "idle"
    /\ idx = 0
    /\ run = 0
    /\ cards = <<>>
    /\ variant_card = IdleVariantCard
    /\ lookup = IdleLookup
    /\ mapping = IdleMapping
    /\ store_fails = FALSE

\* a call of get_grading_fee
GetGradingFee ==
    /\ grading.stage = "new"
    /\ \E value \in DeclaredValues :
          grading' = [grading EXCEPT !.stage = "fee", !.value = value,
                                     !.fee = Some(get_grading_fee(value))]
    /\ UNCHANGED <<cards, variant_card, lookup, syncVars, mapping>>

\* a call of calculate_grading_potential
CalculateGradingPotential ==
    /\ grading.stage = "new"
    /\ grading' = [grading EXCEPT !.stage = "assessed",
                      !.result = calculate_grading_potential(grading.price_raw,
                                     grading.psa9_data, grading.psa10_data)]
    /\ UNCHANGED <<cards, variant_card, lookup, syncVars, mapping>>

NextGrading == GetGradingFee \/ CalculateGradingPotential
SpecGrading == InitGrading /\ [][NextGrading]_vars

(***************************************************************************)
(* scripts/backfill_pokemon_data.py: PokemonBackfiller.sync_tcgplayer_data *)
(* applies manual_mappings.json to the pokemon_sets table.                 *)
(*                                                                         *)
(* The file is a list of entries in the order of the file; the key of the  *)
(* i-th entry is the decimal string of i.  The name of a group and the URL *)
(* made of it are written along and decide nothing; they are left out.     *)
(***************************************************************************)
MaxMappings == 2    \* entries of manual_mappings.json

\* bool() of an optional string: None and '' are false
TruthyStr(x) == x # None /\ x[1] # <<>>

\* int() of a string of decimal digits
RECURSIVE ParseInt(_)
ParseInt(s) ==
    IF s = <<>> THEN 0
    ELSE 10 * ParseInt(SubSeq(s, 1, Len(s) - 1))
         + (CHOOSE d \in 0..9 : DigitChar(d) = s[Len(s)])

\* a choice that lets the automatic mapping win
choose_auto_first(data) ==
    IF TruthyStr(data.auto_mapped_to) THEN data.auto_mapped_to
    ELSE IF TruthyStr(data.manual_set_id) THEN data.manual_set_id
    ELSE None

\* lines 708-712: the set id an entry is applied to, None when it has none
choose_set_id(data) ==
    IF TruthyStr(data.manual_set_id) THEN data.manual_set_id
    ELSE IF TruthyStr(data.auto_mapped_to) THEN data.auto_mapped_to
    ELSE None

\* lines 703-727: the loop over the entries, from entry i on
RECURSIVE plan_updates(_, _, _)
plan_updates(mappings, i, plan) ==
    IF i > Len(mappings) THEN plan
    ELSE LET data == mappings[i]
             set_id == choose_set_id(data)
         IN  IF ~TruthyStr(set_id)
             THEN plan_updates(mappings, i + 1, [plan EXCEPT !.skipped = @ + 1])
             ELSE plan_updates(mappings, i + 1,
                     [plan EXCEPT !.updates =
                         Append(@, [set_id |-> set_id[1],
                                    group_id |-> ParseInt(data.group_id)])])

\* lines 777-788: the updates are written in order; an update of a set the
\* table does not hold changes no row
RECURSIVE apply_updates(_, _)
apply_updates(done, updates) ==
    IF updates = <<>> THEN done
    ELSE LET update == Head(updates)
             sets == IF update.set_id \in DOMAIN done.sets
                     THEN [done.sets EXCEPT ![update.set_id] =
                              [tcgplayer_group_id |-> Some(update.group_id)]]
                     ELSE done.sets
         IN  apply_updates([sets |-> sets, success_count |-> done.success_count + 1],
                           Tail(updates))

\* the values of auto_mapped_to and manual_set_id in the file
MappedIds == {None, Some(<<>>)} \cup {Some(id) : id \in SetIds}

\* the files of n entries
MappingFiles(n) ==
    {[i \in 1..n |-> [group_id |-> DecStr(i), auto_mapped_to |-> e[i][1],
                      manual_set_id |-> e[i][2], skip |-> e[i][3]]] :
        e \in [1..n -> MappedIds \X MappedIds \X BOOLEAN]}

\* the answers to "Update database with TCGPlayer data? (y/N)"
Answers == {<<"y">>, <<"Y">>, <<"n">>, <<>>}

InitMapping ==
    /\ \E n \in 0..MaxMappings : \E file \in MappingFiles(n) : \E dry \in BOOLEAN :
          mapping = [IdleMapping EXCEPT
                        !.stage = "loaded", !.mappings = file, !.dry_run = dry,
                        !.sets = [id \in SetIds |-> [tcgplayer_group_id |-> None]]]
    /\ cards = <<>>
    /\ variant_card = IdleVariantCard
    /\ lookup = IdleLookup
    /\ grading = IdleGrading
    /\ store_fails = FALSE
    /\ processed_product_ids = {}
    /\ stats = <<>>
    /\ dry_run = FALSE
    /\ input_data = <<>>
    /\ products = <<>>
    /\ grouped_products = <<>>
    /\ pc = "idle"
    /\ idx = 0
    /\ run = 0

\* lines 703-727
PlanUpdates ==
    /\ mapping.stage = "loaded"
    /\ LET plan == plan_updates(mapping.mappings, 1, [updates |-> <<>>, skipped |-> 0])
       IN  mapping' = [mapping EXCEPT !.stage = "planned",
                          !.updates = plan.updates, !.skipped = plan.skipped]
    /\ UNCHANGED <<cards, variant_card, lookup, syncVars, grading>>

\* lines 753-788: nothing is written when there is no update, in a dry run,
\* or when the answer is not y
ApplyUpdates ==
    /\ mapping.stage = "planned"
    /\ \E answer \in Answers :
          LET asked == mapping.updates # <<>> /\ ~mapping.dry_run
              done == IF asked /\ Lower(answer) = <<"y">>
                      THEN apply_updates([sets |-> mapping.sets, success_count |-> 0],
                                         mapping.updates)
                      ELSE [sets |-> mapping.sets, success_count |-> 0]
          IN  mapping' = [mapping EXCEPT !.stage = "done",
                             !.answer = IF asked THEN answer ELSE <<>>,
                             !.sets = done.sets,
                             !.success_count = done.success_count]
    /\ UNCHANGED <<cards, variant_card, lookup, syncVars, grading>>

NextMapping == PlanUpdates \/ ApplyUpdates
SpecMapping == InitMapping /\ [][NextMapping]_vars

(***************************************************************************)
(* The claims about the sync of a set (specification Spec).                *)
(***************************************************************************)
Entries(k) == cards[k].tcgplayer_products

Primaries(k) == {i \in DOMAIN Entries(k) : Entries(k)[i].is_primary}

\* C1: the tcgplayer_products list of a catalog card, empty before the first
\* run, holds at most one entry with is_primary = true after any sequence of
\* input 'update' actions and automatic single-product and multi-variant syncs.
C1_AtMostOnePrimary ==
    \A k \in DOMAIN cards \cap CatalogKeys : Cardinality(Primaries(k)) <= 1

\* C2: in a second or later run of sync_set_variants with dry_run off, over the
\* same marketplace list and a catalog nothing else has touched, no step adds,
\* removes or changes an entry of any card's tcgplayer_products list.
C2_SecondRunIsNoOp ==
    [][(run >= 2 /\ ~dry_run) =>
          \A k \in DOMAIN cards :
             k \in DOMAIN cards' /\ cards'[k].tcgplayer_products = Entries(k)]_vars

GroupNow == grouped_products[idx]

\* the products of a group no input action of this run has handled and no
\* synthetic TCG card stands for
Unhandled(g) ==
    LET Open(p) == /\ p.productId \notin processed_product_ids
                   /\ TcgKey(SyncSetId, DecStr(p.productId)) \notin DOMAIN cards
    IN  SelectSeq(g.products, Open)

\* k is a key of the form {set_id}-TCG...
IsTcgKey(set_id, k) ==
    /\ Len(k) >= Len(set_id) + 4
    /\ SubSeq(k, 1, Len(set_id) + 4) = set_id \o <<"-", "T", "C", "G">>

\* C5: the lookup the automatic sync makes for a group's card number never
\* returns a {set_id}-TCG... key: a synthetic card is never the match of a
\* card number.
C5_PlainLookupNeverTcgKey ==
    (AtGroup /\ Unhandled(GroupNow) # <<>>) =>
       ~IsTcgKey(SyncSetId,
                 try_multiple_card_ids(cards, SyncSetId, GroupNow.card_number))

NoCandidateExists(g) ==
    \A i \in DOMAIN possible_ids(SyncSetId, g.card_number) :
       possible_ids(SyncSetId, g.card_number)[i] \notin DOMAIN cards

UnmappedIds(rec) ==
    IF "product_ids" \in DOMAIN rec THEN rec.product_ids ELSE <<rec.product_id>>
UnmappedNames(rec) ==
    IF "product_names" \in DOMAIN rec THEN rec.product_names ELSE <<rec.product_name>>

\* C7: when no candidate key of a group exists in the catalog and the group has
\* an unhandled product, its automatic sync appends exactly one unmapped record
\* with the set id, the card number and the ids and names of all the unhandled
\* products, counts no error and writes nothing to the catalog.
C7_UnmappedReported ==
    [][(AtGroup /\ Unhandled(GroupNow) # <<>> /\ NoCandidateExists(GroupNow)) =>
          /\ cards' = cards
          /\ stats'.errors = stats.errors
          /\ Len(stats'.unmapped_cards) = Len(stats.unmapped_cards) + 1
          /\ SubSeq(stats'.unmapped_cards, 1, Len(stats.unmapped_cards))
                = stats.unmapped_cards
          /\ LET rec == stats'.unmapped_cards[Len(stats'.unmapped_cards)]
                 open == Unhandled(GroupNow)
             IN  /\ rec.set_id = SyncSetId
                 /\ rec.card_number = GroupNow.card_number
                 /\ UnmappedIds(rec) = [i \in DOMAIN open |-> open[i].productId]
                 /\ UnmappedNames(rec) = [i \in DOMAIN open |-> open[i].name]]_vars

\* a variant group was reported unmapped after an input action had changed the
\* catalog
C7_Witness ==
    /\ ~dry_run
    /\ processed_product_ids # {}
    /\ \E i \in DOMAIN stats.unmapped_cards :
          /\ "product_ids" \in DOMAIN stats.unmapped_cards[i]
          /\ stats.unmapped_cards[i].product_ids # <<>>

\* C8: with dry_run set no step of the sync (input 'update' or 'create' action,
\* single-product sync, multi-variant sync) changes the catalog.
C8_DryRunWritesNothing ==
    [][dry_run => cards' = cards]_vars

\* a dry run ended in which an input action and an automatic sync were handled
C8_Witness ==
    /\ dry_run
    /\ pc = "done"
    /\ processed_product_ids # {}
    /\ stats.automatic_updates > 0
    /\ DOMAIN cards # {}

(***************************************************************************)
(* The claims about try_multiple_card_ids (specification SpecKeys).        *)
(***************************************************************************)
\* C4: the candidate key list try_multiple_card_ids builds holds no catalog
\* key more than once, for every set id and card number.
C4_CandidatesDeduplicated ==
    lookup.stage \in {"built", "returned"} =>
       \A i, j \in DOMAIN lookup.possible_ids :
          lookup.possible_ids[i] = lookup.possible_ids[j] => i = j

DigitVal(c) == CHOOSE d \in 0..9 : DigitChar(d) = c
RECURSIVE NumVal(_)
NumVal(s) == IF s = <<>> THEN 0
             ELSE 10 * NumVal(SubSeq(s, 1, Len(s) - 1)) + DigitVal(s[Len(s)])

\* n zeros
Zeros(n) == [i \in 1..n |-> "0"]

\* s is the beginning of t
IsPrefix(s, t) == Len(s) <= Len(t) /\ SubSeq(t, 1, Len(s)) = s

\* the first keys the specification lists for a numeric card number n: n as
\* given, n without leading zeros, n padded to 3 digits
NumericKeys(set_id, n) ==
    LET plain == DecStr(NumVal(n))
    IN  <<CardKey(set_id, n)>>
        \o (IF plain # n THEN <<CardKey(set_id, plain)>> ELSE <<>>)
        \o (IF Len(n) < 3 THEN <<CardKey(set_id, Zeros(3 - Len(n)) \o n)>> ELSE <<>>)

\* C13: for a purely numeric card number n the candidate list begins with
\* {set_id}-n, then {set_id}-(n without leading zeros, one digit kept) when
\* that differs from n, then {set_id}-(n zero-padded to 3 digits) when n has
\* fewer than 3 digits, in this order.
C13_NumericCandidateOrder ==
    (lookup.stage \in {"built", "returned"} /\ IsDigit(lookup.card_number)) =>
       IsPrefix(NumericKeys(lookup.set_id, lookup.card_number), lookup.possible_ids)

\* the list of "01": sv-01, then sv-1, then sv-001, then another key
C13_Witness ==
    /\ lookup.stage = "built"
    /\ lookup.card_number = <<"0", "1">>
    /\ Len(lookup.possible_ids) = 4
    /\ lookup.possible_ids[2] = CardKey(lookup.set_id, <<"1">>)
    /\ lookup.possible_ids[3] = CardKey(lookup.set_id, <<"0", "0", "1">>)

\* the letters and the digits of a letters+digits card number
LettersOf(n) == LetterPrefix(n)
DigitsOf(n) == SubSeq(n, Len(LetterPrefix(n)) + 1, Len(n))

AddNew(forms, cond, f) == IF cond /\ f \notin Range(forms) THEN Append(forms, f) ELSE forms

\* the forms the specification lists for the digit part d of a letters+digits
\* number, each added only when it differs from the forms before it: d as
\* given, d reduced to its last 2 digits (here only when the digits dropped
\* are zeros), d without leading zeros, d padded to 3 digits
DigitForms(d) ==
    LET given == <<d>>
        two == AddNew(given,
                      Len(d) > 2 /\ SubSeq(d, 1, Len(d) - 2) = Zeros(Len(d) - 2),
                      SubSeq(d, Len(d) - 1, Len(d)))
        stripped == AddNew(two, TRUE, DecStr(NumVal(d)))
    IN  AddNew(stripped, Len(d) < 3, Zeros(3 - Len(d)) \o d)

Occurrences(s, x) == Cardinality({i \in DOMAIN s : s[i] = x})

\* C14: for a letters+digits card number the candidate list holds, once each,
\* the key as given and the keys of the 2-digit form (digit part longer than 2
\* digits), the zero-stripped form and the 3-digit padded form (digit part
\* shorter than 3 digits), each form only when it differs from the forms
\* generated before it.
C14_LetterDigitCandidates ==
    (lookup.stage \in {"built", "returned"} /\ LetterMatch(lookup.card_number)) =>
       LET forms == DigitForms(DigitsOf(lookup.card_number))
       IN  \A i \in DOMAIN forms :
              Occurrences(lookup.possible_ids,
                          CardKey(lookup.set_id,
                                  LettersOf(lookup.card_number) \o forms[i])) = 1

\* the card number a key of the set names: the key without "{set_id}-"
NumberOfKey(set_id, key) == SubSeq(key, Len(set_id) + 2, Len(key))

\* two letters+digits card numbers that differ only in zero-padding
SameCardNumber(a, b) ==
    /\ LetterMatch(a) /\ LetterMatch(b)
    /\ LettersOf(a) = LettersOf(b)
    /\ NumVal(DigitsOf(a)) = NumVal(DigitsOf(b))

\* C28: every candidate key generated for a letters+digits card number (the
\* keys before the closing {set_id}-TCG key) names the card number of the
\* input: the same letter prefix and a digit part of the same numeric value.
C28_CandidatesNameSameCard ==
    (lookup.stage \in {"built", "returned"} /\ LetterMatch(lookup.card_number)) =>
       \A i \in 1..(Len(lookup.possible_ids) - 1) :
          SameCardNumber(NumberOfKey(lookup.set_id, lookup.possible_ids[i]),
                         lookup.card_number)

(***************************************************************************)
(* The claims about VariantCard (specifications SpecClassify, SpecVariant).*)
(***************************************************************************)
\* two characters that are the same up to the case of a letter
SameLetter(a, b) ==
    a = b \/ \E i \in DOMAIN Upper : {a, b} = {Upper[i], Low[i]}

\* the name contains the keyword, whatever the case of its letters
NameHas(name, kw) ==
    \E off \in 0..(Len(name) - Len(kw)) :
       \A j \in 1..Len(kw) : SameLetter(name[off + j], kw[j])

\* the classification the claim gives a name
PatternOf(name) ==
    IF NameHas(name, KwMasterBall) THEN "master_ball"
    ELSE IF NameHas(name, KwPokeBall) \/ NameHas(name, KwPokeballOne) THEN "poke_ball"
    ELSE IF \/ NameHas(name, KwRainbow) \/ NameHas(name, KwSecret)
            \/ NameHas(name, KwGold) \/ NameHas(name, KwAlternateArt) THEN "special"
    ELSE "base"

\* C9: classify_product_variant is the case-insensitive, first-match-wins
\* classification of the name: master_ball, else poke_ball, else special, else
\* base; a name with a ball keyword and a special keyword is the ball pattern.
C9_ClassifyFirstMatchWins ==
    variant_card.stage \in {"classified", "built"} =>
       \A i \in DOMAIN variant_card.classified_products :
          LET c == variant_card.classified_products[i]
          IN  /\ c.variant_type = PatternOf(c.product.name)
              /\ c.is_base = (c.variant_type = "base")

\* a name with a ball keyword and a special keyword, in capitals, was classified
C9_Witness ==
    /\ variant_card.stage = "classified"
    /\ \E i \in DOMAIN variant_card.classified_products :
          LET c == variant_card.classified_products[i]
          IN  /\ NameHas(c.product.name, KwMasterBall)
              /\ ~Contains(KwMasterBall, c.product.name)
              /\ NameHas(c.product.name, KwSecret)
              /\ c.variant_type = "master_ball"

\* the first product, in input order, that classifies as base; the first
\* product when none does
PrimaryIndex(prods) ==
    LET bases == {i \in DOMAIN prods : classify_product_variant(prods[i]) = "base"}
    IN  IF bases = {} THEN 1 ELSE CHOOSE i \in bases : \A j \in bases : i <= j

\* C10: for a non-empty group of products with distinct ids, classify_variants
\* and build_tcgplayer_products_array mark exactly one entry is_primary: the
\* first product that classifies as base, or the first product when none does.
C10_ExactlyOnePrimary ==
    variant_card.stage = "built" =>
       LET arr == variant_card.products_array
       IN  /\ Len(arr) = Len(variant_card.products)
           /\ \A i \in DOMAIN arr :
                 /\ arr[i].product_id = variant_card.products[i].productId
                 /\ arr[i].is_primary <=> (i = PrimaryIndex(variant_card.products))
           /\ Cardinality({i \in DOMAIN arr : arr[i].is_primary}) = 1

\* a group of several products, none of them base, was built
C10_Witness ==
    /\ variant_card.stage = "built"
    /\ Len(variant_card.products_array) >= 2
    /\ \A i \in DOMAIN variant_card.classified_products :
          ~variant_card.classified_products[i].is_base
    /\ variant_card.products_array[1].is_primary

\* the variant_types the specification gives a pattern
PatternTypes(pattern) ==
    IF pattern = "poke_ball" THEN <<"poke_ball">>
    ELSE IF pattern = "master_ball" THEN <<"master_ball">>
    ELSE <<"normal", "reverse", "holo">>

\* C11: build_tcgplayer_products_array emits one entry per classified product,
\* in input order, with the product's id and name, whose variant_types is the
\* singleton of the pattern for poke_ball and master_ball and
\* [normal, reverse, holo] for base and special.
C11_VariantTypesPerPattern ==
    variant_card.stage = "built" =>
       LET arr == variant_card.products_array
           cl == variant_card.classified_products
       IN  /\ Len(arr) = Len(cl)
           /\ \A i \in DOMAIN arr :
                 /\ arr[i].product_id = cl[i].product.productId
                 /\ arr[i].name = cl[i].product.name
                 /\ arr[i].variant_types = PatternTypes(cl[i].variant_type)

\* the group "X (Poke Ball Pattern)", "X (Master Ball Pattern)", "X" was built
C11_Witness ==
    /\ variant_card.stage = "built"
    /\ Len(variant_card.products_array) = 3
    /\ variant_card.classified_products[1].variant_type = "poke_ball"
    /\ variant_card.classified_products[2].variant_type = "master_ball"
    /\ variant_card.classified_products[3].variant_type = "base"
    /\ variant_card.products_array[3].is_primary

(***************************************************************************)
(* More claims about the sync of a set (specification Spec).               *)
(***************************************************************************)
\* C12: every entry of every card's tcgplayer_products list, whichever path
\* wrote it, has the variant_types of the pattern its name classifies as:
\* the singleton for poke_ball and master_ball, [normal, reverse, holo]
\* otherwise.
C12_PersistedVariantTypes ==
    \A k \in DOMAIN cards :
       \A i \in DOMAIN Entries(k) :
          Entries(k)[i].variant_types = PatternTypes(PatternOf(Entries(k)[i].name))

\* what a caller of the sync can read about a product: a group holding it, an
\* unmapped record naming it, an entry of a card's tcgplayer_products
InSomeGroup(p) ==
    \E g \in DOMAIN grouped_products : p \in Range(grouped_products[g].products)
InSomeRecord(p) ==
    \E i \in DOMAIN stats.unmapped_cards :
       p.productId \in Range(UnmappedIds(stats.unmapped_cards[i]))
OnSomeCard(p) ==
    \E k \in DOMAIN cards :
       \E i \in DOMAIN Entries(k) : Entries(k)[i].product_id = p.productId

\* C16: when the sync of a set has ended, every card product of the
\* marketplace list without an extractable "Number" is in some result or
\* report a caller can read (a group, an unmapped record, a card), not only
\* missing from the groups.
C16_UnnumberedReported ==
    (pc = "done" /\ products # <<>>) =>
       \A i \in DOMAIN products :
          (is_card_product(products[i]) /\ extract_card_number(products[i]) = <<>>) =>
             \/ InSomeGroup(products[i])
             \/ InSomeRecord(products[i])
             \/ OnSomeCard(products[i])

(***************************************************************************)
(* The claims about group_products_by_card_number (specification SpecGroup).*)
(***************************************************************************)
\* the items of a product's extendedData named "Number"
NumberItems(p) == {i \in DOMAIN p.extendedData : p.extendedData[i].name = "Number"}

\* the value of the first "Number" item
FirstNumber(p) ==
    p.extendedData[CHOOSE i \in NumberItems(p) : \A j \in NumberItems(p) : i <= j].value

\* the part of a value before its first "/"; the whole value without "/"
RECURSIVE UpToSlash(_)
UpToSlash(v) ==
    IF \A i \in DOMAIN v : v[i] # "/" THEN v
    ELSE UpToSlash(SubSeq(v, 1, Len(v) - 1))

\* a card product whose first "Number" value is not empty
Numbered(p) ==
    /\ \E i \in DOMAIN p.extendedData : p.extendedData[i].name \in CardAttributes
    /\ NumberItems(p) # {}
    /\ FirstNumber(p) # <<>>

\* the places (group, position) of the product in the groups
PlacesOf(p) ==
    {gj \in (DOMAIN grouped_products) \X (1..(MaxListed + 1)) :
        /\ gj[2] \in DOMAIN grouped_products[gj[1]].products
        /\ grouped_products[gj[1]].products[gj[2]] = p}

\* C15: group_products_by_card_number puts every card product with a non-empty
\* "Number" into exactly one group, the one keyed by the part of its first
\* "Number" value before the first "/"; groups have distinct keys and keep
\* the input order; no other product is in any group.
C15_GroupedByNumberPart ==
    pc = "grouped" =>
       /\ \A i \in DOMAIN products :
             IF Numbered(products[i])
             THEN /\ Cardinality(PlacesOf(products[i])) = 1
                  /\ \A gj \in PlacesOf(products[i]) :
                        grouped_products[gj[1]].card_number
                           = UpToSlash(FirstNumber(products[i]))
             ELSE PlacesOf(products[i]) = {}
       /\ \A g, h \in DOMAIN grouped_products :
             grouped_products[g].card_number = grouped_products[h].card_number => g = h
       /\ \A g \in DOMAIN grouped_products :
             LET ps == grouped_products[g].products
             IN  /\ ps # <<>>
                 /\ \A j \in DOMAIN ps : ps[j] \in Range(products)
                 /\ \A j, k \in DOMAIN ps : j < k => ps[j].productId < ps[k].productId

\* "1" and "1/9" were put into one group, a product with two "Number" values
\* into the group of the first, and a product without "Number" into none
C15_Witness ==
    /\ pc = "grouped"
    /\ Len(products) = MaxListed
    /\ \E g \in DOMAIN grouped_products :
          /\ Len(grouped_products[g].products) = 2
          /\ \E j \in 1..2 :
                Contains(<<"/">>, FirstNumber(grouped_products[g].products[j]))
    /\ \E g \in DOMAIN grouped_products :
          \E j \in DOMAIN grouped_products[g].products :
             Cardinality(NumberItems(grouped_products[g].products[j])) = 2
    /\ Len(grouped_products) = 2

(***************************************************************************)
(* The claims about the grading calculator (specification SpecGrading).    *)
(***************************************************************************)
\* the fee ladder of the specification: ceiling and fee, in thousandths of a
\* dollar
Ladder ==
    <<[ceiling |-> 499000, fee |-> 19990],
      [ceiling |-> 1000000, fee |-> 59990],
      [ceiling |-> 1500000, fee |-> 74990],
      [ceiling |-> 2500000, fee |-> 149000],
      [ceiling |-> 5000000, fee |-> 299000],
      [ceiling |-> 10000000, fee |-> 599000],
      [ceiling |-> 25000000, fee |-> 999000],
      [ceiling |-> 50000000, fee |-> 1999000],
      [ceiling |-> 100000000, fee |-> 2999000],
      [ceiling |-> 250000000, fee |-> 4999000],
      [ceiling |-> 350000000, fee |-> 9999000]>>

\* the number of started 10000-dollar steps in an overage
StepsOver(overage) == CHOOSE k \in 1..100 : (k - 1) * 10000000 < overage
                                            /\ overage <= k * 10000000

\* the fee the specification gives a declared value
LadderFee(value) ==
    IF value = None \/ value[1] <= 0 THEN 19990
    ELSE IF value[1] <= 350000000
    THEN LET fits == {i \in DOMAIN Ladder : Ladder[i].ceiling >= value[1]}
         IN  Ladder[CHOOSE i \in fits : \A j \in fits : i <= j].fee
    ELSE 9999000 + 399000 * StepsOver(value[1] - 350000000)

\* C17: get_grading_fee returns 19.99 for an absent value or a value <= 0, the
\* fee of the smallest ladder tier whose ceiling is >= the value up to 350000,
\* and 9999.00 + 399.00 * ceil((value - 350000) / 10000) above.
C17_FeeLadder ==
    grading.stage = "fee" => grading.fee = Some(LadderFee(grading.value))

\* the fee of 360000 was asked: 10398.00
C17_Witness ==
    /\ grading.stage = "fee"
    /\ grading.value = Some(360000000)
    /\ grading.fee = Some(10398000)

\* the price of a grade as the pricing data gives it: absent without data,
\* without a smartMarketPrice, without a price
PriceIn(data) ==
    IF data = None \/ data = NoSmartPrice THEN None ELSE data.smartMarketPrice.price

AllNull(r) ==
    /\ r.grading_cost_basis_entry = None
    /\ r.grading_fee_entry = None
    /\ r.grading_fee_psa9 = None
    /\ r.grading_fee_psa10 = None
    /\ r.profit_at_psa9 = None
    /\ r.profit_at_psa10 = None
    /\ r.roi_psa10 = None
    /\ r.upcharge_potential = FALSE
    /\ r.grading_safety_tier = None

Assessed == grading.stage = "assessed"

\* C18: calculate_grading_potential returns the all-null assessment whenever
\* the raw price is absent or <= 0, or the grade-9 and the grade-10 price are
\* both absent.
C18_InsufficientDataAllNull ==
    (/\ Assessed
     /\ \/ grading.price_raw = None
        \/ grading.price_raw[1] <= 0
        \/ (PriceIn(grading.psa9_data) = None /\ PriceIn(grading.psa10_data) = None))
       => AllNull(grading.result)

\* assess(raw = 10, no grade-9 price, no grade-10 price) returned all null
C18_Witness ==
    /\ Assessed
    /\ grading.price_raw = Some(10000)
    /\ grading.psa9_data = None
    /\ grading.psa10_data = NoSmartPrice
    /\ AllNull(grading.result)

\* C19: whenever calculate_grading_potential computes neither profit_at_psa9
\* nor profit_at_psa10 the result is the all-null assessment, the entry fee
\* and the entry cost basis null too, for every input.
C19_NoProfitAllNull ==
    (/\ Assessed
     /\ grading.result.profit_at_psa9 = None
     /\ grading.result.profit_at_psa10 = None)
       => AllNull(grading.result)

\* the multiple of 10 nearest to x (an amount rounded to 2 decimals)
NearestCent(x) ==
    CHOOSE c \in {10 * (x \div 10), 10 * (x \div 10) + 10} :
       \A e \in {10 * (x \div 10), 10 * (x \div 10) + 10} :
          (IF x >= c THEN x - c ELSE c - x) <= (IF x >= e THEN x - e ELSE e - x)

\* the fee and the profit the specification gives a grade
GradeExpected(price_raw, price) ==
    IF price # None /\ price[1] > 0
    THEN LET fee == IF LadderFee(price_raw) >= LadderFee(price)
                    THEN LadderFee(price_raw) ELSE LadderFee(price)
         IN  [fee |-> Some(fee),
              profit |-> Some(NearestCent(price[1] - (fee + 9990 + price_raw[1])))]
    ELSE [fee |-> None, profit |-> None]

\* C20: for a raw price > 0 and a grade g whose price is present and > 0, the
\* fee of g is max(fee(raw), fee(price_g)) and the profit of g is
\* price_g - (fee_g + 9.99 + raw) rounded to 2 decimals; for a grade whose
\* price is absent or not positive both are null.
C20_FeeAndProfitPerGrade ==
    (Assessed /\ grading.price_raw # None /\ grading.price_raw[1] > 0) =>
       LET e9 == GradeExpected(grading.price_raw, PriceIn(grading.psa9_data))
           e10 == GradeExpected(grading.price_raw, PriceIn(grading.psa10_data))
       IN  /\ grading.result.grading_fee_psa9 = e9.fee
           /\ grading.result.profit_at_psa9 = e9.profit
           /\ grading.result.grading_fee_psa10 = e10.fee
           /\ grading.result.profit_at_psa10 = e10.profit

\* raw 50 and grade-9 200 gave fee 19.99 and profit 120.02, the grade-10 price
\* being not positive
C20_Witness ==
    /\ Assessed
    /\ grading.price_raw = Some(50000)
    /\ PriceIn(grading.psa9_data) = Some(200000)
    /\ PriceIn(grading.psa10_data) = Some(-5000)
    /\ grading.result.grading_fee_psa9 = Some(19990)
    /\ grading.result.profit_at_psa9 = Some(120020)
    /\ grading.result.profit_at_psa10 = None

Abs(x) == IF x < 0 THEN -x ELSE x

\* the total cost of the grade-10 scenario, in cents, from the fields of the
\* result
TotalCost10 ==
    (grading.result.grading_fee_psa10[1] + 9990 + grading.price_raw[1]) \div 10

\* C21: for a raw price > 0 and a grade-10 price > 0, roi_psa10 is
\* 100 * profit_at_psa10 / totalCost10 rounded to 2 decimals (no multiple of
\* 0.01 is nearer), totalCost10 is not 0, and in every assessment roi_psa10 is
\* null only when profit_at_psa10 was not computed.
C21_RoiOfGrade10 ==
    Assessed =>
       /\ grading.result.roi_psa10 = None => grading.result.profit_at_psa10 = None
       /\ (/\ grading.price_raw # None /\ grading.price_raw[1] > 0
           /\ PriceIn(grading.psa10_data) # None
           /\ PriceIn(grading.psa10_data)[1] > 0) =>
             /\ grading.result.roi_psa10 # None
             /\ TotalCost10 > 0
             /\ 2 * Abs(grading.result.roi_psa10[1] * TotalCost10
                        - 10000 * (grading.result.profit_at_psa10[1] \div 10))
                   <= TotalCost10

\* raw 600 and grade-10 60.004: a loss, the return on investment negative
C21_Witness ==
    /\ Assessed
    /\ grading.price_raw = Some(600000)
    /\ PriceIn(grading.psa10_data) = Some(60004)
    /\ grading.result.roi_psa10 # None
    /\ grading.result.roi_psa10[1] < 0

\* a fee of the result exceeds the entry fee of the result
FeeExceedsEntry(fee) ==
    fee # None /\ fee[1] > grading.result.grading_fee_entry[1]

\* C22: in every non-default assessment upcharge_potential is true exactly
\* when the grade-9 fee or the grade-10 fee was computed and exceeds the entry
\* fee.
C22_UpchargeIffHigherFee ==
    (Assessed /\ grading.result.grading_fee_entry # None) =>
       (grading.result.upcharge_potential
          <=> \/ FeeExceedsEntry(grading.result.grading_fee_psa9)
              \/ FeeExceedsEntry(grading.result.grading_fee_psa10))

\* only the grade-9 fee exceeds the entry fee: the grade-10 price is absent
C22_Witness ==
    /\ Assessed
    /\ grading.result.upcharge_potential
    /\ FeeExceedsEntry(grading.result.grading_fee_psa9)
    /\ grading.result.grading_fee_psa10 = None

\* roi10 > 125 and profit10 > 0, from the fields of the result
HighRoi(r) ==
    /\ r.roi_psa10 # None /\ r.roi_psa10[1] > 12500
    /\ r.profit_at_psa10 # None /\ r.profit_at_psa10[1] > 0

\* the tier the specification gives a result
TierOf(r) ==
    IF r.profit_at_psa9 # None
    THEN IF /\ r.profit_at_psa9[1] >= 0
            /\ r.profit_at_psa10 # None
            /\ r.profit_at_psa10[1] >= 20000
         THEN Some("SAFE_BET")
         ELSE IF HighRoi(r) THEN Some("GAMBLE") ELSE Some("DO_NOT_GRADE")
    ELSE IF r.profit_at_psa10 # None
    THEN IF HighRoi(r) THEN Some("GAMBLE") ELSE Some("DO_NOT_GRADE")
    ELSE None

\* C23: grading_safety_tier is SAFE_BET, else GAMBLE, else DO_NOT_GRADE in the
\* order of the specification when profit9 was computed, GAMBLE or
\* DO_NOT_GRADE when only profit10 was, and null exactly when neither profit
\* was computed.
C23_SafetyTierOrder ==
    Assessed =>
       /\ grading.result.grading_safety_tier = TierOf(grading.result)
       /\ (grading.result.grading_safety_tier = None)
            <=> (/\ grading.result.profit_at_psa9 = None
                 /\ grading.result.profit_at_psa10 = None)

\* both grades pay, the grade-10 profit under 20 dollars: DO_NOT_GRADE
C23_Witness ==
    /\ Assessed
    /\ grading.result.profit_at_psa9 # None
    /\ grading.result.profit_at_psa9[1] >= 0
    /\ grading.result.profit_at_psa10 # None
    /\ grading.result.profit_at_psa10[1] >= 0
    /\ grading.result.profit_at_psa10[1] < 20000
    /\ grading.result.grading_safety_tier = Some("DO_NOT_GRADE")

\* C26: whenever grading_safety_tier is GAMBLE, no grade-9 profit was computed
\* or profit_at_psa9 < 0, and profit_at_psa10 > 0 with roi_psa10 > 125.
C26_GambleOnlyWhenGrade9Loses ==
    (Assessed /\ grading.result.grading_safety_tier = Some("GAMBLE")) =>
       /\ \/ grading.result.profit_at_psa9 = None
          \/ grading.result.profit_at_psa9[1] < 0
       /\ HighRoi(grading.result)

\* GAMBLE with a grade-9 loss; the same raw price with a grade-9 gain is among
\* the inputs
C26_Witness ==
    /\ Assessed
    /\ grading.result.grading_safety_tier = Some("GAMBLE")
    /\ grading.result.profit_at_psa9 # None
    /\ grading.result.profit_at_psa9[1] < 0
    /\ \E d \in GradedData :
          LET r == calculate_grading_potential(grading.price_raw, d, grading.psa10_data)
          IN  /\ r.profit_at_psa9 # None
              /\ r.profit_at_psa9[1] >= 0
              /\ HighRoi(r)

\* C30: get_grading_fee is non-decreasing in the declared value and never
\* under 19.99; the entry fee of an assessment does not exceed the fee of a
\* graded price that is at least the raw price.
C30_FeeMonotone ==
    /\ (grading.stage = "fee" /\ grading.value # None) =>
          /\ grading.fee[1] >= 19990
          /\ \A b \in DeclaredValues \ {None} :
                /\ grading.value[1] <= b[1] => grading.fee[1] <= get_grading_fee(b)
                /\ b[1] <= grading.value[1] => get_grading_fee(b) <= grading.fee[1]
    /\ (Assessed /\ grading.result.grading_fee_entry # None) =>
          \A d \in {grading.psa9_data, grading.psa10_data} :
             (PriceIn(d) # None /\ PriceIn(d)[1] >= grading.price_raw[1]) =>
                grading.result.grading_fee_entry[1] <= get_grading_fee(PriceIn(d))

\* the fee of 1000.001, a thousandth over a ceiling, was asked: 74.99
C30_Witness ==
    /\ grading.stage = "fee"
    /\ grading.value = Some(1000001)
    /\ grading.fee = Some(74990)


(***************************************************************************)
(* The claims about the manual-mapping file (specification SpecMapping).   *)
(***************************************************************************)
\* the field holds a set id
Populated(x) == x # None /\ x # Some(<<>>)

\* the updates planned for the i-th entry of the file
UpdatesOf(i) == {u \in DOMAIN mapping.updates : mapping.updates[u].group_id = i}

\* the i-th entry is applied, once, to the set id x holds
AppliedTo(i, x) ==
    /\ Cardinality(UpdatesOf(i)) = 1
    /\ \A u \in UpdatesOf(i) : Some(mapping.updates[u].set_id) = x

\* C24: the set id used for a group is manual_set_id whenever that is
\* populated (also when auto_mapped_to is populated too), auto_mapped_to when
\* only that is populated, and the group is skipped, with no update, when
\* neither is populated.
C24_ManualWinsOverAuto ==
    mapping.stage \in {"planned", "done"} =>
       /\ \A i \in DOMAIN mapping.mappings :
             LET data == mapping.mappings[i]
             IN  IF Populated(data.manual_set_id) THEN AppliedTo(i, data.manual_set_id)
                 ELSE IF Populated(data.auto_mapped_to)
                      THEN AppliedTo(i, data.auto_mapped_to)
                 ELSE UpdatesOf(i) = {}
       /\ mapping.skipped =
             Cardinality({i \in DOMAIN mapping.mappings :
                             /\ ~Populated(mapping.mappings[i].manual_set_id)
                             /\ ~Populated(mapping.mappings[i].auto_mapped_to)})

\* group 1 is mapped automatically to sv and by hand to bw, group 2 has no
\* mapping: bw gets group 1, sv gets none, one entry is skipped
C24_Witness ==
    /\ mapping.stage = "done"
    /\ Len(mapping.mappings) = 2
    /\ mapping.mappings[1].auto_mapped_to = Some(<<"s", "v">>)
    /\ mapping.mappings[1].manual_set_id = Some(<<"b", "w">>)
    /\ mapping.mappings[2].auto_mapped_to = None
    /\ mapping.mappings[2].manual_set_id = Some(<<>>)
    /\ mapping.updates = <<[set_id |-> <<"b", "w">>, group_id |-> 1]>>
    /\ mapping.skipped = 1
    /\ mapping.sets[<<"b", "w">>].tcgplayer_group_id = Some(1)
    /\ mapping.sets[<<"s", "v">>].tcgplayer_group_id = None

\* C25: an entry marked skip = true produces no update of any set, whatever
\* its auto_mapped_to and manual_set_id hold: no update is planned for its
\* group and no set is given its group id.
C25_SkipHonoured ==
    mapping.stage \in {"planned", "done"} =>
       \A i \in DOMAIN mapping.mappings :
          mapping.mappings[i].skip =>
             /\ UpdatesOf(i) = {}
             /\ \A id \in DOMAIN mapping.sets :
                   mapping.sets[id].tcgplayer_group_id # Some(i)


(***************************************************************************)
(* The claim about input actions and the automatic matching of one run     *)
(* (specification Spec).                                                   *)
(***************************************************************************)
\* the product ids the 'update' and 'create' actions of the input file handle:
\* the product of an update, every product of a create
HandledByInput ==
    {p \in 1..MaxProducts :
        \E i \in DOMAIN input_data :
           /\ input_data[i].action \in {"update", "create"}
           /\ \E j \in DOMAIN input_data[i].tcg_products :
                 /\ input_data[i].tcg_products[j].productId = p
                 /\ input_data[i].action = "update" => j = 1}

\* where the table db lists product id p: the cards and the positions
PlacesOn(db, p) ==
    {<<k, i>> \in (DOMAIN db) \X (1..(2 * MaxProducts + 1)) :
        /\ i \in DOMAIN db[k].tcgplayer_products
        /\ db[k].tcgplayer_products[i].product_id = p}

\* C27: the input actions are processed before the automatic matching, and no
\* step of the automatic matching attaches a product a second time that an
\* input 'update' or 'create' action of the run handled and that is on a card
\* already, nor attaches a product that has a synthetic {set_id}-TCG card.
C27_HandledSkippedByAutomatic ==
    [][pc = "auto" =>
          /\ stats.input_actions_processed = stats'.input_actions_processed
          /\ \A p \in 1..MaxProducts :
                (\/ p \in HandledByInput /\ PlacesOn(cards, p) # {}
                 \/ TcgKey(SyncSetId, DecStr(p)) \in DOMAIN cards)
                => PlacesOn(cards', p) = PlacesOn(cards, p)]_vars

(***************************************************************************)
(* The claim about a write that fails (specification SpecFailing).         *)
(***************************************************************************)
\* C29: sync_single_product_card and sync_multi_variant_card return True only
\* if successful: when the write inside update_card_variant_data fails (the
\* step counts an error), the card is not counted in cards_updated and the
\* method returns False, so the group is not counted in automatic_updates.
C29_FailedWriteNotCounted ==
    [][(pc = "auto" /\ store_fails /\ stats'.errors > stats.errors) =>
          /\ stats'.cards_updated = stats.cards_updated
          /\ stats'.automatic_updates = stats.automatic_updates]_vars

====
